---- MODULE Spec2Model ----
(***************************************************************************)
(* A model of srctools/bsp.py: the BSP container (lumps, game lumps), the  *)
(* lazily parsed views (ParsedLump), save()/read(), and the per-lump       *)
(* codecs.                                                                 *)
(*                                                                         *)
(* Representation.  A lump's bytes are a sequence of integer cells.  One   *)
(* cell is one struct field (an 'i', 'h', 'H', 'B', 'f' or an opaque '4s') *)
(* or, in text and string data, one byte (a character code).  Offsets and  *)
(* lengths count cells.  A 4-byte identifier whose bytes the code reorders *)
(* (the game-lump id) is four cells.                                       *)
(***************************************************************************)
EXTENDS Integers, Sequences, FiniteSets, TLC

VARIABLES
    lumps,          \* BSP.lumps: slot -> [version, ident, data]
    parsed_lumps,   \* BSP._parsed_lumps: primary slot of a view -> decoded value
    game_lumps,     \* BSP.game_lumps: insertion-ordered dict, as a sequence
    map_revision,   \* BSP.map_revision
    version,        \* BSP.version (the integer value)
    out_comma_sep,  \* BSP.out_comma_sep: "None", "True" or "False"
    next_oid,       \* identity of the next object a decode allocates
    files,          \* the cells of the files: "bsp" is BSP.filename, "new" another path
    last,           \* the last call made on the instance and its outcome
    op_pc,          \* codec harness: position
    op_in,          \* codec harness: the input of the codec call
    op_mid,         \* codec harness: the encoder's outcome
    op_out          \* codec harness: the decoder's outcome

vars == <<lumps, parsed_lumps, game_lumps, map_revision, version, out_comma_sep,
          next_oid, files, last, op_pc, op_in, op_mid, op_out>>

bspVars == <<lumps, parsed_lumps, game_lumps, map_revision, version, out_comma_sep,
             next_oid, files, last>>

opVars == <<op_pc, op_in, op_mid, op_out>>

\* The fields of the instance.
instVars == <<lumps, parsed_lumps, game_lumps, map_revision, version, out_comma_sep,
              next_oid>>

(***************************************************************************)
(* Python sequence helpers.                                                *)
(***************************************************************************)
Min(a, b) == IF a < b THEN a ELSE b

Max(a, b) == IF a > b THEN a ELSE b

\* s[i] for a 0-based Python index; negative indices count from the end.
PyInRange(s, i) == i >= -Len(s) /\ i < Len(s)

PyGet(s, i) == IF i < 0 THEN s[Len(s) + i + 1] ELSE s[i + 1]

\* s[a:b]
PyNorm(s, a) == IF a < 0 THEN Max(Len(s) + a, 0) ELSE Min(a, Len(s))

PySlice(s, a, b) == SubSeq(s, PyNorm(s, a) + 1, PyNorm(s, b))

\* bytes.find(sub): the lowest 0-based index at which sub occurs, or -1.
Find(data, sub) ==
    LET hits == {i \in 0..(Len(data) - Len(sub)) :
                    SubSeq(data, i + 1, i + Len(sub)) = sub}
    IN  IF hits = {} THEN -1 ELSE CHOOSE i \in hits : \A j \in hits : i <= j

\* str.encode('ascii') / bytes.decode('ascii') succeed on these only.
IsAscii(s) == \A i \in 1..Len(s) : s[i] >= 0 /\ s[i] < 128

\* A failed call: the exception that propagates.
Raise(e) == [ok |-> FALSE, err |-> e]

(***************************************************************************)
(* Texture-name table: BSP._lmp_read_textures / BSP._lmp_write_textures.   *)
(***************************************************************************)
\* "strings are limited to 128 chars"
TEX_NAME_LIMIT == 128

\* The scan of one table offset: for str_off in range(off, off + 128).
ScanName(tex_data, off) ==
    LET span == off..(off + TEX_NAME_LIMIT - 1)
        bad  == {k \in span : ~PyInRange(tex_data, k)}
        nuls == {k \in span : PyInRange(tex_data, k) /\ PyGet(tex_data, k) = 0}
        firstBad == CHOOSE k \in bad : \A j \in bad : k <= j
        firstNul == CHOOSE k \in nuls : \A j \in nuls : k <= j
    IN  IF nuls # {} /\ (bad = {} \/ firstNul < firstBad)
        THEN IF IsAscii(PySlice(tex_data, off, firstNul))
             THEN [ok |-> TRUE, err |-> "", val |-> PySlice(tex_data, off, firstNul)]
             ELSE [ok |-> FALSE, err |-> "UnicodeDecodeError", val |-> <<>>]
        ELSE IF bad # {}
        THEN [ok |-> FALSE, err |-> "IndexError", val |-> <<>>]
        ELSE [ok |-> FALSE, err |-> "ValueError", val |-> <<>>]

RECURSIVE ReadTexturesLoop(_, _, _)
ReadTexturesLoop(table_offsets, tex_data, mat_list) ==
    IF table_offsets = <<>>
    THEN [ok |-> TRUE, err |-> "", val |-> mat_list]
    ELSE LET r == ScanName(tex_data, Head(table_offsets))
         IN  IF ~r.ok THEN r
             ELSE ReadTexturesLoop(Tail(table_offsets), tex_data,
                                   Append(mat_list, r.val))

\* The decode as a function of the two lumps it reads.
DecodeTextures(tex_table, tex_data) == ReadTexturesLoop(tex_table, tex_data, <<>>)

\* The loop without the search of the blob: every name is appended.
RECURSIVE Mut_WriteTexturesLoop(_, _, _, _)
Mut_WriteTexturesLoop(textures, table, data, limit) ==
    IF textures = <<>>
    THEN [ok |-> TRUE, err |-> "", table |-> table, data |-> data]
    ELSE IF Len(Head(textures)) >= limit
    THEN [ok |-> FALSE, err |-> "OverflowError", table |-> <<>>, data |-> <<>>]
    ELSE IF ~IsAscii(Head(textures))
    THEN [ok |-> FALSE, err |-> "UnicodeEncodeError", table |-> <<>>, data |-> <<>>]
    ELSE Mut_WriteTexturesLoop(Tail(textures), Append(table, Len(data)),
                               data \o Head(textures) \o <<0>>, limit)

RECURSIVE WriteTexturesLoop(_, _, _, _)
WriteTexturesLoop(textures, table, data, limit) ==
    IF textures = <<>>
    THEN [ok |-> TRUE, err |-> "", table |-> table, data |-> data]
    ELSE LET tex    == Head(textures)
             string == tex \o <<0>>
             found  == Find(data, string)
         IN  IF Len(tex) >= limit
             THEN [ok |-> FALSE, err |-> "OverflowError", table |-> <<>>, data |-> <<>>]
             ELSE IF ~IsAscii(tex)
             THEN [ok |-> FALSE, err |-> "UnicodeEncodeError", table |-> <<>>, data |-> <<>>]
             ELSE WriteTexturesLoop(
                      Tail(textures),
                      Append(table, IF found = -1 THEN Len(data) ELSE found),
                      IF found = -1 THEN data \o string ELSE data,
                      limit)

\* The encode with the limit one character too far: a name of 128 is taken.
Mut_EncodeTextures(textures) == WriteTexturesLoop(textures, <<>>, <<>>, TEX_NAME_LIMIT + 1)

\* The encode as a function of the name list: the table and the string blob.
EncodeTextures(textures) == WriteTexturesLoop(textures, <<>>, <<>>, TEX_NAME_LIMIT)

(***************************************************************************)
(* BSP_LUMPS: the slots of the lump directory (only the slots the code     *)
(* names are given a name here; every slot 0..63 is modelled).             *)
(***************************************************************************)
ENTITIES == 0

PLANES == 1

TEXDATA == 2

NODES == 5

TEXINFO == 6

LEAFS == 10

GAME_LUMP == 35

PAKFILE == 40

CUBEMAPS == 42

TEXDATA_STRING_DATA == 43

TEXDATA_STRING_TABLE == 44

OVERLAYS == 45

\* LUMP_COUNT = max(lump.value for lump in BSP_LUMPS) + 1
LUMP_COUNT == 64

BSP_LUMPS == 0..(LUMP_COUNT - 1)

\* list(BSP_LUMPS): the canonical members in definition order.
LumpList == [i \in 1..LUMP_COUNT |-> i - 1]

Remove(seq, x) ==
    LET hit == CHOOSE i \in 1..Len(seq) : seq[i] = x /\ \A j \in 1..(i - 1) : seq[j] # x
    IN  SubSeq(seq, 1, hit - 1) \o SubSeq(seq, hit + 1, Len(seq))

\* The write order without the special case: the lumps in directory order.
Mut_LUMP_WRITE_ORDER == LumpList

\* The pakfile lump is put at the end.
LUMP_WRITE_ORDER == Append(Remove(LumpList, PAKFILE), PAKFILE)

LUMP_REBUILD_ORDER == <<PAKFILE, ENTITIES, CUBEMAPS, OVERLAYS, TEXINFO, TEXDATA_STRING_DATA>>

\* The ParsedLump descriptors of BSP, by primary lump: pakfile, ents, textures,
\* texinfo, cubemaps, overlays.
ViewLumps == {PAKFILE, ENTITIES, TEXDATA_STRING_DATA, TEXINFO, CUBEMAPS, OVERLAYS}

\* A descriptor that forgets the extra lumps.
Mut_to_clear(lump) == <<lump>>

\* ParsedLump.to_clear = (lump, ) + extra
to_clear(lump) ==
    CASE lump = TEXDATA_STRING_DATA -> <<TEXDATA_STRING_DATA, TEXDATA_STRING_TABLE>>
      [] lump = TEXINFO -> <<TEXINFO, TEXDATA>>
      [] OTHER -> <<lump>>

Range(seq) == {seq[i] : i \in 1..Len(seq)}

(***************************************************************************)
(* The instance as a value: the operators below take the instance b and    *)
(* return the instance after the call.                                     *)
(***************************************************************************)
Self ==
    [lumps |-> lumps, parsed |-> parsed_lumps, game_lumps |-> game_lumps,
     map_revision |-> map_revision, version |-> version,
     out_comma_sep |-> out_comma_sep, next_oid |-> next_oid]

\* instance.lumps[lump].data = data
SetData(b, lump, data) == [b EXCEPT !.lumps[lump].data = data]

RECURSIVE ClearData(_, _)
ClearData(b, ls) ==
    IF ls = <<>> THEN b ELSE ClearData(SetData(b, Head(ls), <<>>), Tail(ls))

\* instance._parsed_lumps[lump] = value
Store(b, lump, value) ==
    [b EXCEPT !.parsed = [l \in (DOMAIN b.parsed) \cup {lump} |->
                             IF l = lump THEN value ELSE b.parsed[l]]]

\* instance._parsed_lumps.pop(lump)
Pop(b, lump) ==
    [b EXCEPT !.parsed = [l \in (DOMAIN b.parsed) \ {lump} |-> b.parsed[l]]]

\* The outcome of a call: the instance after it, and its result or exception.
\* reads: the lumps whose _lmp_read_ function the call ran.
Ok(b, val, reads) == [ok |-> TRUE, err |-> "", b |-> b, val |-> val, reads |-> reads]

Fail(b, e, reads) == [ok |-> FALSE, err |-> e, b |-> b, val |-> <<>>, reads |-> reads]

\* The records of struct.iter_unpack over data, n cells each.
Records(data, n) == [i \in 1..(Len(data) \div n) |-> SubSeq(data, (i - 1) * n + 1, i * n)]

\* The concatenation of seqs[lo..hi] and of all of seqs (b''.join).
RECURSIVE FlattenRange(_, _, _)
FlattenRange(seqs, lo, hi) ==
    IF lo > hi THEN <<>>
    ELSE IF lo = hi THEN seqs[lo]
    ELSE FlattenRange(seqs, lo, (lo + hi) \div 2)
             \o FlattenRange(seqs, (lo + hi) \div 2 + 1, hi)

Flatten(seqs) == FlattenRange(seqs, 1, Len(seqs))

(***************************************************************************)
(* Pakfile: zipfile.ZipFile over a BytesIO, opened in mode 'a'.  An        *)
(* archive's bytes are modelled as: leading bytes that are not part of the *)
(* archive, one cell per member file, and the end-of-central-directory     *)
(* record as one cell.                                                     *)
(***************************************************************************)
ZIP_EOCD == 80

\* The cells that stand for a member file of an archive.
ZipMember(c) == c >= 1 /\ c < ZIP_EOCD

\* ZipFile(BytesIO(data), mode='a'): an archive is found at the end of the
\* bytes, whatever precedes it; bytes that do not end in an archive are kept
\* and a new, empty archive is appended to them.
ZipOpen(data) ==
    LET n == Len(data)
        starts == {i \in 1..n : \A j \in i..(n - 1) : ZipMember(data[j])}
        first == CHOOSE i \in starts : \A j \in starts : i <= j
    IN  IF n > 0 /\ data[n] = ZIP_EOCD
        THEN [prefix |-> SubSeq(data, 1, first - 1),
              files |-> SubSeq(data, first, n - 1), fp |-> "BytesIO"]
        ELSE [prefix |-> data, files |-> <<>>, fp |-> "BytesIO"]

\* ZipFile.close() then buf.getvalue().
ZipBytes(zip) == zip.prefix \o zip.files \o <<ZIP_EOCD>>

lmp_read_pakfile(b, data) == Ok(b, ZipOpen(data), {PAKFILE})

lmp_write_pakfile(b, zip) == Ok(b, ZipBytes(zip), {})

\* A validator that accepts every archive.
Mut_lmp_check_pakfile(b, zip) == Ok(b, <<>>, {})

lmp_check_pakfile(b, zip) ==
    IF zip.fp # "BytesIO" THEN Fail(b, "ValueError", {}) ELSE Ok(b, <<>>, {})

(***************************************************************************)
(* Cubemaps: '<iiii' records.                                              *)
(***************************************************************************)
lmp_read_cubemaps(b, data) ==
    IF Len(data) % 4 # 0 THEN Fail(b, "struct.error", {CUBEMAPS})
    ELSE Ok(b, [i \in 1..(Len(data) \div 4) |->
                   [origin |-> <<Records(data, 4)[i][1], Records(data, 4)[i][2],
                                 Records(data, 4)[i][3]>>,
                    size |-> Records(data, 4)[i][4]]],
            {CUBEMAPS})

lmp_write_cubemaps(b, cubemaps) ==
    Ok(b, Flatten([i \in 1..Len(cubemaps) |->
                      <<cubemaps[i].origin[1], cubemaps[i].origin[2],
                        cubemaps[i].origin[3], cubemaps[i].size>>]), {})

(***************************************************************************)
(* Entity lump: BSP._lmp_read_ents / BSP.write_ent_data, on the bytes.     *)
(* srctools.vmf (VMF, Entity, Output), srctools.tokenizer.escape_text and  *)
(* srctools.conv_int are not part of bsp.py; they are modelled as the      *)
(* specification describes them: an entity is an ordered mapping of string *)
(* keys to string values and an ordered list of connection records.        *)
(***************************************************************************)
CH_NUL == 0

CH_LF == 10

CH_CR == 13

CH_QUOTE == 34

CH_SPACE == 32

CH_COMMA == 44

CH_BACKSLASH == 92

CH_OPEN == 123

CH_CLOSE == 125

\* The byte the code looks for in a value: "if 27 in value".
VALUE_SEP_TEST == 27

\* The separator byte of a connection record (0x1D).
OUTPUT_SEP == 29

STR_classname == <<99, 108, 97, 115, 115, 110, 97, 109, 101>>

STR_worldspawn == <<119, 111, 114, 108, 100, 115, 112, 97, 119, 110>>

STR_mapversion == <<109, 97, 112, 118, 101, 114, 115, 105, 111, 110>>

\* bytes.splitlines(): lines end at \n, \r or \r\n; no empty last line.
RECURSIVE SplitLines(_)
SplitLines(data) ==
    IF data = <<>> THEN <<>>
    ELSE LET brk == {i \in 1..Len(data) : data[i] \in {CH_LF, CH_CR}}
             i == CHOOSE k \in brk : \A j \in brk : k <= j
             skip == IF data[i] = CH_CR /\ i < Len(data) /\ data[i + 1] = CH_LF
                     THEN 2 ELSE 1
         IN  IF brk = {} THEN <<data>>
             ELSE <<SubSeq(data, 1, i - 1)>>
                      \o SplitLines(SubSeq(data, i + skip, Len(data)))

\* bytes.split(sep, maxsplit)
RECURSIVE SplitOn(_, _, _)
SplitOn(data, sep, maxsplit) ==
    LET at == Find(data, sep)
    IN  IF maxsplit = 0 \/ at = -1 THEN <<data>>
        ELSE <<SubSeq(data, 1, at)>>
                 \o SplitOn(SubSeq(data, at + Len(sep) + 1, Len(data)), sep, maxsplit - 1)

\* bytes.replace(old, new)
RECURSIVE Replace(_, _, _)
Replace(data, old, new) ==
    LET at == Find(data, old)
    IN  IF at = -1 THEN data
        ELSE SubSeq(data, 1, at) \o new
                 \o Replace(SubSeq(data, at + Len(old) + 1, Len(data)), old, new)

\* bytes.count(c) for a single byte.
Count(data, c) == Cardinality({i \in 1..Len(data) : data[i] = c})

IsDigits(s) == s # <<>> /\ \A i \in 1..Len(s) : s[i] >= 48 /\ s[i] <= 57

RECURSIVE DigitsValue(_)
DigitsValue(s) ==
    IF s = <<>> THEN 0 ELSE 10 * DigitsValue(SubSeq(s, 1, Len(s) - 1)) + (s[Len(s)] - 48)

\* int(text) succeeds on an optional '-' and digits.
IsInt(s) == IsDigits(s) \/ (s # <<>> /\ s[1] = 45 /\ IsDigits(Tail(s)))

IntValue(s) == IF s[1] = 45 THEN 0 - DigitsValue(Tail(s)) ELSE DigitsValue(s)

RECURSIVE NatStr(_)
NatStr(n) == IF n < 10 THEN <<48 + n>> ELSE NatStr(n \div 10) \o <<48 + (n % 10)>>

\* str(n)
IntStr(n) == IF n < 0 THEN <<45>> \o NatStr(0 - n) ELSE NatStr(n)

\* conv_int(val, default)
conv_int(val, default) == IF IsInt(val) THEN IntValue(val) ELSE default

HasKey(ent, key) == \E i \in 1..Len(ent.keys) : ent.keys[i][1] = key

\* The code reads a key that may be missing (the world's classname, line 786)
\* and expects a value, not an exception: a missing key reads as ''.
KeyValue(ent, key) ==
    IF HasKey(ent, key)
    THEN ent.keys[CHOOSE i \in 1..Len(ent.keys) : ent.keys[i][1] = key][2]
    ELSE <<>>

\* Entity[key] = value: a key keeps its place, a new key goes last.
SetKey(ent, key, value) ==
    IF HasKey(ent, key)
    THEN [ent EXCEPT !.keys = [i \in 1..Len(ent.keys) |->
                                  IF ent.keys[i][1] = key THEN <<key, value>>
                                  ELSE ent.keys[i]]]
    ELSE [ent EXCEPT !.keys = Append(@, <<key, value>>)]

\* Entity.add_out(output)
AddOut(ent, out) == [ent EXCEPT !.outputs = Append(@, out)]

NewEntity == [keys |-> <<>>, outputs |-> <<>>]

\* VMF()
NewVMF == [spawn |-> NewEntity, entities |-> <<>>, map_ver |-> 0]

\* Output.parse(Property(key, value)): target, input, parameters, delay and
\* times, separated by OUTPUT_SEP if the value holds one and by commas
\* otherwise; the last two are numbers.
OutputFrom(key, parts, comma_sep) ==
    IF Len(parts) = 5 /\ IsInt(parts[4]) /\ IsInt(parts[5])
    THEN [ok |-> TRUE,
          val |-> [output |-> key, target |-> parts[1], input |-> parts[2],
                   params |-> parts[3], delay |-> IntValue(parts[4]),
                   times |-> IntValue(parts[5]), comma_sep |-> comma_sep]]
    ELSE [ok |-> FALSE, val |-> <<>>]

OutputParse(key, value) ==
    IF Count(value, OUTPUT_SEP) > 0
    THEN OutputFrom(key, SplitOn(value, <<OUTPUT_SEP>>, -1), FALSE)
    ELSE OutputFrom(key, SplitOn(value, <<CH_COMMA>>, -1), TRUE)

\* Output._get_text(): the record as a line.
OutputText(out) ==
    LET sep == IF out.comma_sep THEN <<CH_COMMA>> ELSE <<OUTPUT_SEP>>
    IN  <<CH_QUOTE>> \o out.output \o <<CH_QUOTE, CH_SPACE, CH_QUOTE>>
            \o out.target \o sep \o out.input \o sep \o out.params \o sep
            \o IntStr(out.delay) \o sep \o IntStr(out.times) \o <<CH_QUOTE, CH_LF>>

\* escape_text(value): quotes are escaped with a backslash.
escape_text(value) == Replace(value, <<CH_QUOTE>>, <<CH_BACKSLASH, CH_QUOTE>>)

\* The entity being filled: cur is "None" between brackets, "spawn" for
\* vmf.spawn and "ent" for another entity.
EntStart(sep) ==
    [vmf |-> NewVMF, cur |-> "None", cur_ent |-> NewEntity, seen_spawn |-> FALSE,
     sep |-> sep, ok |-> TRUE, err |-> "", returned |-> FALSE]

EntFail(st, e) == [st EXCEPT !.ok = FALSE, !.err = e]

\* Lines 811-829: the pair is an output or a keyvalue; parsed is what
\* Output.parse makes of it.
EntStore(st, value, decoded_key, decoded_value, parsed) ==
    IF Count(value, VALUE_SEP_TEST) > 0
    THEN IF ~parsed.ok THEN EntFail(st, "ValueError")
         ELSE [st EXCEPT !.cur_ent = AddOut(@, parsed.val),
                         !.sep = IF @ = "None" THEN "False" ELSE @]
    ELSE IF Count(value, CH_COMMA) = 4
    THEN [st EXCEPT !.cur_ent = IF parsed.ok THEN AddOut(@, parsed.val)
                                ELSE SetKey(@, decoded_key, decoded_value),
                    !.sep = IF @ = "None" THEN "True" ELSE @]
    ELSE [st EXCEPT !.cur_ent = SetKey(@, decoded_key, decoded_value)]

\* Lines 807-810: the key and the value are decoded as ASCII.
EntDecode(st, value, decoded_key, decoded_value) ==
    IF ~IsAscii(decoded_key) \/ ~IsAscii(decoded_value)
    THEN EntFail(st, "UnicodeDecodeError")
    ELSE EntStore(st, value, decoded_key, decoded_value,
                  OutputParse(decoded_key, decoded_value))

\* Line 806: key, value = line.split(b'" "', 2)
EntPair(st, parts) ==
    IF Len(parts) # 2 THEN EntFail(st, "ValueError")
    ELSE EntDecode(st, parts[2], Tail(parts[1]),
                   Replace(SubSeq(parts[2], 1, Len(parts[2]) - 1),
                           <<CH_BACKSLASH, CH_QUOTE>>, <<CH_QUOTE>>))

\* A key/value line: lines 805-829.
EntKeyValue(st, line) == EntPair(st, SplitOn(line, <<CH_QUOTE, CH_SPACE, CH_QUOTE>>, 2))

\* The loop with a world that is appended to the entity list as the other
\* entities are, whatever its classname.
Mut_EntLine(st, line) ==
    IF line = <<CH_OPEN>>
    THEN IF st.cur # "None" THEN EntFail(st, "ValueError")
         ELSE IF ~st.seen_spawn
         THEN [st EXCEPT !.cur = "spawn", !.cur_ent = st.vmf.spawn, !.seen_spawn = TRUE]
         ELSE [st EXCEPT !.cur = "ent", !.cur_ent = NewEntity]
    ELSE IF line = <<CH_CLOSE>>
    THEN IF st.cur = "None" THEN EntFail(st, "ValueError")
         ELSE [st EXCEPT !.vmf.entities = Append(@, st.cur_ent), !.cur = "None"]
    ELSE IF line = <<CH_NUL>>
    THEN IF st.cur # "None" THEN EntFail(st, "ValueError")
         ELSE [st EXCEPT !.returned = TRUE]
    ELSE IF st.cur = "None" THEN EntFail(st, "ValueError")
    ELSE EntKeyValue(st, line)

\* One line of the loop: lines 766-829.
EntLine(st, line) ==
    IF line = <<CH_OPEN>>
    THEN IF st.cur # "None" THEN EntFail(st, "ValueError")
         ELSE IF ~st.seen_spawn
         THEN [st EXCEPT !.cur = "spawn", !.cur_ent = st.vmf.spawn, !.seen_spawn = TRUE]
         ELSE [st EXCEPT !.cur = "ent", !.cur_ent = NewEntity]
    ELSE IF line = <<CH_CLOSE>>
    THEN IF st.cur = "None" THEN EntFail(st, "ValueError")
         ELSE IF st.cur = "spawn"
         THEN IF KeyValue(st.cur_ent, STR_classname) # STR_worldspawn
              THEN EntFail([st EXCEPT !.vmf.spawn = st.cur_ent], "ValueError")
              ELSE [st EXCEPT !.vmf.spawn = st.cur_ent, !.cur = "None"]
         ELSE [st EXCEPT !.vmf.entities = Append(@, st.cur_ent), !.cur = "None"]
    ELSE IF line = <<CH_NUL>>
    THEN IF st.cur # "None" THEN EntFail(st, "ValueError")
         ELSE [st EXCEPT !.returned = TRUE]
    ELSE IF st.cur = "None" THEN EntFail(st, "ValueError")
    ELSE EntKeyValue(st, line)

RECURSIVE EntLoop(_, _)
EntLoop(st, lines) ==
    IF ~st.ok \/ st.returned \/ lines = <<>> THEN st
    ELSE EntLoop(EntLine(st, Head(lines)), Tail(lines))

\* Falling off the loop stores the world's mapversion in the VMF; the
\* return at the NUL line does not.
EntEnd(st) ==
    LET world == IF st.cur = "spawn" THEN st.cur_ent ELSE st.vmf.spawn
    IN  IF ~st.ok \/ st.returned THEN st
        ELSE [st EXCEPT !.vmf.spawn = world,
                        !.vmf.map_ver =
                            conv_int(KeyValue(world, STR_mapversion), st.vmf.map_ver)]

\* The decode as a function of the bytes and of out_comma_sep before it.
DecodeEnts(ent_data, sep) == EntEnd(EntLoop(EntStart(sep), SplitLines(ent_data)))

\* A failed decode keeps a separator style it has already stored.
EntsResult(b, st) ==
    IF st.ok THEN Ok([b EXCEPT !.out_comma_sep = st.sep], st.vmf, {ENTITIES})
    ELSE Fail([b EXCEPT !.out_comma_sep = st.sep], st.err, {ENTITIES})

lmp_read_ents(b, ent_data) == EntsResult(b, DecodeEnts(ent_data, b.out_comma_sep))

\* An entity written with each record in the style it has itself, whatever
\* the caller asks for.
Mut_EntText(ent, use_comma_sep) ==
    <<CH_OPEN, CH_LF>>
        \o Flatten([i \in 1..Len(ent.keys) |->
                       <<CH_QUOTE>> \o ent.keys[i][1] \o <<CH_QUOTE, CH_SPACE, CH_QUOTE>>
                           \o escape_text(ent.keys[i][2]) \o <<CH_QUOTE, CH_LF>>])
        \o Flatten([i \in 1..Len(ent.outputs) |-> OutputText(ent.outputs[i])])
        \o <<CH_CLOSE, CH_LF>>

\* The text of one entity: lines 853-860.
EntText(ent, use_comma_sep) ==
    <<CH_OPEN, CH_LF>>
        \o Flatten([i \in 1..Len(ent.keys) |->
                       <<CH_QUOTE>> \o ent.keys[i][1] \o <<CH_QUOTE, CH_SPACE, CH_QUOTE>>
                           \o escape_text(ent.keys[i][2]) \o <<CH_QUOTE, CH_LF>>])
        \o Flatten([i \in 1..Len(ent.outputs) |->
                       OutputText(IF use_comma_sep = "None" THEN ent.outputs[i]
                                  ELSE [ent.outputs[i] EXCEPT
                                           !.comma_sep = (use_comma_sep = "True")])])
        \o <<CH_CLOSE, CH_LF>>

\* BSP.write_ent_data(vmf, use_comma_sep)
write_ent_data(vmf, use_comma_sep) ==
    Flatten([i \in 1..(1 + Len(vmf.entities)) |->
                EntText(IF i = 1 THEN vmf.spawn ELSE vmf.entities[i - 1], use_comma_sep)])
        \o <<CH_NUL>>

lmp_write_ents(b, vmf) == Ok(b, write_ent_data(vmf, b.out_comma_sep), {})

(***************************************************************************)
(* TexInfo / TexData and overlays.  A TexData and a TexInfo object carry   *)
(* an identity (oid): two values are the same object iff their oids are    *)
(* equal.                                                                  *)
(***************************************************************************)
\* SurfFlags(flags): every bit 0x1 .. 0x8000 is a member.
SURF_FLAGS_LIMIT == 65536

\* Overlay.faces: '64i'
OVERLAY_FACES == 64

\* face_count = face_ro & ((1 << 14) - 1); render_order = face_ro >> 14
OVERLAY_FACE_MOD == 16384

\* the cells of a '<3f5i' TexData record
TEXDATA_CELLS == 8

\* the cells of a '<16fii' TexInfo record
TEXINFO_CELLS == 18

\* the cells of an overlay record: '<ihH' '64i' '4f' '18f'
OVERLAY_CELLS == 89

RECURSIVE DescriptorGet(_, _)

\* The loop over the TexData records, lines 569-579.
RECURSIVE TexDataLoop(_, _, _, _)
TexDataLoop(recs, textures, oid, texdata_list) ==
    IF recs = <<>> THEN [ok |-> TRUE, err |-> "", val |-> texdata_list]
    ELSE LET r == Head(recs)
         IN  IF ~PyInRange(textures, r[4])
             THEN [ok |-> FALSE, err |-> "IndexError", val |-> <<>>]
             ELSE IF ~(r[7] = r[5] /\ r[8] = r[6])
             THEN [ok |-> FALSE, err |-> "AssertionError", val |-> <<>>]
             ELSE TexDataLoop(Tail(recs), textures, oid + 1,
                      Append(texdata_list,
                             [oid |-> oid, mat |-> PyGet(textures, r[4]),
                              reflectivity |-> <<r[1], r[2], r[3]>>,
                              width |-> r[5], height |-> r[6]]))

\* The list of TexInfo, lines 582-597.
RECURSIVE TexInfoLoop(_, _, _, _)
TexInfoLoop(recs, texdata_list, oid, result) ==
    IF recs = <<>> THEN [ok |-> TRUE, err |-> "", val |-> result]
    ELSE LET r == Head(recs)
         IN  IF r[17] < 0 \/ r[17] >= SURF_FLAGS_LIMIT
             THEN [ok |-> FALSE, err |-> "ValueError", val |-> <<>>]
             ELSE IF ~PyInRange(texdata_list, r[18])
             THEN [ok |-> FALSE, err |-> "IndexError", val |-> <<>>]
             ELSE TexInfoLoop(Tail(recs), texdata_list, oid + 1,
                      Append(result,
                             [oid |-> oid,
                              s_off |-> <<r[1], r[2], r[3]>>, s_shift |-> r[4],
                              t_off |-> <<r[5], r[6], r[7]>>, t_shift |-> r[8],
                              lightmap_s_off |-> <<r[9], r[10], r[11]>>,
                              lightmap_s_shift |-> r[12],
                              lightmap_t_off |-> <<r[13], r[14], r[15]>>,
                              lightmap_t_shift |-> r[16],
                              flags |-> r[17],
                              info |-> PyGet(texdata_list, r[18])]))

\* A decode that gives every TexInfo a TexData object of its own.
Mut_TexInfoResult(b, ti, n_texdata, reads) ==
    IF ~ti.ok THEN Fail(b, ti.err, reads)
    ELSE Ok([b EXCEPT !.next_oid = @ + n_texdata + Len(ti.val)],
            [i \in 1..Len(ti.val) |-> [ti.val[i] EXCEPT !.info.oid = ti.val[i].oid]],
            reads)

\* Lines 582-597: the TexInfo objects; the oids of a decode follow each other.
TexInfoResult(b, ti, n_texdata, reads) ==
    IF ~ti.ok THEN Fail(b, ti.err, reads)
    ELSE Ok([b EXCEPT !.next_oid = @ + n_texdata + Len(ti.val)], ti.val, reads)

\* Line 580: the TexData lump is emptied before the TexInfo records are
\* unpacked.
TexInfoFrom(b, data, tl, reads) ==
    IF ~tl.ok THEN Fail(b, tl.err, reads)
    ELSE IF Len(data) % TEXINFO_CELLS # 0
    THEN Fail(SetData(b, TEXDATA, <<>>), "struct.error", reads)
    ELSE TexInfoResult(SetData(b, TEXDATA, <<>>),
                       TexInfoLoop(Records(data, TEXINFO_CELLS), tl.val,
                                   b.next_oid + Len(tl.val), <<>>),
                       Len(tl.val), reads)

\* g is what reading self.textures gave.
TexInfoWith(g, data, td) ==
    IF ~g.ok THEN Fail(g.b, g.err, g.reads \cup {TEXINFO})
    ELSE TexInfoFrom(g.b, data,
                     TexDataLoop(Records(td, TEXDATA_CELLS), g.val, g.b.next_oid, <<>>),
                     g.reads \cup {TEXINFO})

\* self.textures is read once per TexData record: the first read decodes the
\* view, the later ones find it cached.
lmp_read_texinfo(b, data) ==
    IF Len(b.lumps[TEXDATA].data) % TEXDATA_CELLS # 0
    THEN Fail(b, "struct.error", {TEXINFO})
    ELSE TexInfoWith(IF b.lumps[TEXDATA].data = <<>> THEN Ok(b, <<>>, {})
                     ELSE DescriptorGet(b, TEXDATA_STRING_DATA),
                     data, b.lumps[TEXDATA].data)

\* The TypeError of hashing a TexData: attr.define(eq=True) on a class that is
\* not frozen sets __hash__ to None, so the lookup texdata_ind[tdat] of the
\* first TexInfo raises before anything is written.  self.textures has been
\* read by then (line 604); g is what reading it gave.
WriteTexInfoWith(g, texinfos) ==
    IF ~g.ok THEN Fail(g.b, g.err, g.reads)
    ELSE IF texinfos # <<>> THEN Fail(g.b, "TypeError", g.reads)
    ELSE Ok(SetData(g.b, TEXDATA, <<>>), <<>>, g.reads)

lmp_write_texinfo(b, texinfos) ==
    WriteTexInfoWith(DescriptorGet(b, TEXDATA_STRING_DATA), texinfos)

\* One overlay record, lines 698-721.  self.texinfo is read when the Overlay
\* is built, after the face count has been checked; the Overlay's validators
\* run last.
RECURSIVE OverlayLoop(_, _, _, _)

\* g is what reading self.texinfo gave.
OverlayWith(g, recs, overlays, reads, r) ==
    IF ~g.ok THEN Fail(g.b, g.err, reads \cup g.reads)
    ELSE IF ~PyInRange(g.val, r[2]) THEN Fail(g.b, "IndexError", reads \cup g.reads)
    ELSE IF (r[3] \div OVERLAY_FACE_MOD) \notin 0..2
    THEN Fail(g.b, "ValueError", reads \cup g.reads)
    ELSE OverlayLoop(g.b, Tail(recs),
             Append(overlays,
                    [id |-> r[1],
                     origin |-> SubSeq(r, 84, 86),
                     normal |-> SubSeq(r, 87, 89),
                     texture |-> PyGet(g.val, r[2]),
                     face_count |-> r[3] % OVERLAY_FACE_MOD,
                     faces |-> SubSeq(r, 4, 3 + (r[3] % OVERLAY_FACE_MOD)),
                     render_order |-> r[3] \div OVERLAY_FACE_MOD,
                     u_min |-> r[68], u_max |-> r[69],
                     v_min |-> r[70], v_max |-> r[71],
                     uv1 |-> SubSeq(r, 72, 74), uv2 |-> SubSeq(r, 75, 77),
                     uv3 |-> SubSeq(r, 78, 80), uv4 |-> SubSeq(r, 81, 83)]),
             reads \cup g.reads)

\* The loop without the test of the face count.
Mut_OverlayLoop(b, recs, overlays, reads) ==
    IF recs = <<>> THEN Ok(b, overlays, reads)
    ELSE OverlayWith(DescriptorGet(b, TEXINFO), recs, overlays, reads, Head(recs))

\* One record of the loop: lines 698-702, then the rest in OverlayWith.
OverlayLoop(b, recs, overlays, reads) ==
    IF recs = <<>> THEN Ok(b, overlays, reads)
    ELSE IF Head(recs)[3] % OVERLAY_FACE_MOD > OVERLAY_FACES
    THEN Fail(b, "ValueError", reads)
    ELSE OverlayWith(DescriptorGet(b, TEXINFO), recs, overlays, reads, Head(recs))

lmp_read_overlays(b, data) ==
    IF Len(data) % OVERLAY_CELLS # 0 THEN Fail(b, "struct.error", {OVERLAYS})
    ELSE OverlayLoop(b, Records(data, OVERLAY_CELLS), <<>>, {OVERLAYS})

\* Overlay(...) and the setting of render_order on one: the validator of
\* line 1318 runs in both.
OverlayInit(over) ==
    IF over.render_order \notin 0..2 THEN [ok |-> FALSE, err |-> "ValueError", val |-> <<>>]
    ELSE [ok |-> TRUE, err |-> "", val |-> over]

OverlaySetOrder(over, render_order) == OverlayInit([over EXCEPT !.render_order = render_order])

lmp_write_overlays(b, over) == Fail(b, "NotImplementedError", {})

\* get_lump(TEXDATA_STRING_TABLE) is read first, then the string data.
TexturesResult(b, r) ==
    IF r.ok THEN Ok(b, r.val, {TEXDATA_STRING_DATA}) ELSE Fail(b, r.err, {TEXDATA_STRING_DATA})

lmp_read_textures(b, tex_data) ==
    TexturesResult(b, DecodeTextures(b.lumps[TEXDATA_STRING_TABLE].data, tex_data))

\* An encode that assigns the table to the TexData lump.
Mut_TexturesWritten(b, r) ==
    IF r.ok THEN Ok(SetData(b, TEXDATA, r.table), r.data, {}) ELSE Fail(b, r.err, {})

\* The table lump is assigned only when every name has been encoded.
TexturesWritten(b, r) ==
    IF r.ok THEN Ok(SetData(b, TEXDATA_STRING_TABLE, r.table), r.data, {})
    ELSE Fail(b, r.err, {})

lmp_write_textures(b, textures) == TexturesWritten(b, EncodeTextures(textures))

(***************************************************************************)
(* ParsedLump: the descriptor.                                             *)
(***************************************************************************)
\* self._read = getattr(owner, '_lmp_read_' + name)
ReadFunc(b, lump, data) ==
    CASE lump = PAKFILE -> lmp_read_pakfile(b, data)
      [] lump = ENTITIES -> lmp_read_ents(b, data)
      [] lump = TEXDATA_STRING_DATA -> lmp_read_textures(b, data)
      [] lump = TEXINFO -> lmp_read_texinfo(b, data)
      [] lump = CUBEMAPS -> lmp_read_cubemaps(b, data)
      [] lump = OVERLAYS -> lmp_read_overlays(b, data)

\* self._check = getattr(owner, '_lmp_check_' + name, None)
CheckFunc(b, lump, value) ==
    IF lump = PAKFILE THEN lmp_check_pakfile(b, value) ELSE Ok(b, <<>>, {})

\* owner._save_funcs[self.lump] = getattr(owner, '_lmp_write_' + name)
SaveFunc(b, lump, value) ==
    CASE lump = PAKFILE -> lmp_write_pakfile(b, value)
      [] lump = ENTITIES -> lmp_write_ents(b, value)
      [] lump = TEXDATA_STRING_DATA -> lmp_write_textures(b, value)
      [] lump = TEXINFO -> lmp_write_texinfo(b, value)
      [] lump = CUBEMAPS -> lmp_write_cubemaps(b, value)
      [] lump = OVERLAYS -> lmp_write_overlays(b, value)

\* A read that caches the value and leaves the lumps of the view as they are.
Mut_Cache(r, lump) == IF ~r.ok THEN r ELSE Ok(Store(r.b, lump, r.val), r.val, r.reads)

\* Lines 289-293: the decoded value is cached, then the lumps of the view
\* are emptied; r is what the read function gave.
Cache(r, lump) ==
    IF ~r.ok THEN r
    ELSE Ok(ClearData(Store(r.b, lump, r.val), to_clear(lump)), r.val, r.reads)

\* ParsedLump.__get__
DescriptorGet(b, lump) ==
    IF lump \in DOMAIN b.parsed THEN Ok(b, b.parsed[lump], {})
    ELSE IF lump \notin DOMAIN b.lumps THEN Fail(b, "KeyError", {})
    ELSE Cache(ReadFunc(b, lump, b.lumps[lump].data), lump)

\* ParsedLump.__set__
DescriptorSet(b, lump, value) ==
    LET c == CheckFunc(b, lump, value)
    IN  IF ~c.ok THEN c
        ELSE Ok(Store(ClearData(b, to_clear(lump)), lump, value), <<>>, {})

(***************************************************************************)
(* DeferredWrites (srctools.binformat, not part of bsp.py), as the         *)
(* specification describes it: a placeholder is reserved at the current    *)
(* position under a key, its value is supplied later, and write() patches  *)
(* every reservation in registration order.  A stream w is the cells       *)
(* written so far, the reservations and the values supplied.               *)
(***************************************************************************)
NewStream == [cells |-> <<>>, loc |-> <<>>, data |-> <<>>]

\* defer.defer(key, fmt, write) at position pos: width is the number of cells
\* of fmt.
Reservation(key, pos, width) == [key |-> key, pos |-> pos, width |-> width]

\* defer.set_data(key, *data)
Fulfilment(key, data) == [key |-> key, data |-> data]

Fulfilled(w, key) == \E i \in 1..Len(w.data) : w.data[i].key = key

DeferredData(w, key) == w.data[CHOOSE i \in 1..Len(w.data) : w.data[i].key = key].data

\* A write() that patches the reservations of two cells, those of the lump
\* directory, and leaves the others as they were reserved.
Mut_DeferredWrite(w) ==
    [ok |-> TRUE,
     cells |-> [i \in 1..Len(w.cells) |->
                   LET cover == {k \in 1..Len(w.loc) :
                                    /\ w.loc[k].width = 2
                                    /\ w.loc[k].pos < i
                                    /\ i <= w.loc[k].pos + w.loc[k].width}
                   IN  IF cover = {} THEN w.cells[i]
                       ELSE LET k == CHOOSE x \in cover : TRUE
                            IN  DeferredData(w, w.loc[k].key)[i - w.loc[k].pos]]]

\* defer.write(): every reservation is overwritten with its value, in
\* registration order; it fails if a reservation was never fulfilled.
DeferredWrite(w) ==
    IF \A i \in 1..Len(w.loc) : Fulfilled(w, w.loc[i].key)
    THEN [ok |-> TRUE,
          cells |-> [i \in 1..Len(w.cells) |->
                        LET cover == {k \in 1..Len(w.loc) :
                                         w.loc[k].pos < i
                                         /\ i <= w.loc[k].pos + w.loc[k].width}
                            k == CHOOSE x \in cover : \A y \in cover : y <= x
                        IN  IF cover = {} THEN w.cells[i]
                            ELSE DeferredData(w, w.loc[k].key)[i - w.loc[k].pos]]]
    ELSE [ok |-> FALSE, cells |-> w.cells]

LumpKey(lump) == <<"lump", <<lump>>>>

GameKey(id) == <<"game", id>>

(***************************************************************************)
(* BSP.save: the file, and BSP.read: the parse of a file.                  *)
(***************************************************************************)
\* BSP_MAGIC = b'VBSP', as the little-endian integer of its four bytes.
BSP_MAGIC == 1347633750

\* the cells of HEADER_1 = '<4si'
HEADER_1_CELLS == 2

\* the cells of HEADER_LUMP = '<3i4s'
HEADER_LUMP_CELLS == 4

\* the cells of GameLump.ST = '<4s HH ii', the id being four
GAME_ST_CELLS == 8

Reverse(seq) == [i \in 1..Len(seq) |-> seq[Len(seq) + 1 - i]]

\* Where the payloads start: after HEADER_1, the lump headers and HEADER_2.
DIR_END == HEADER_1_CELLS + LUMP_COUNT * HEADER_LUMP_CELLS

\* Lines 432-447: the header, a placeholder header per lump in BSP_LUMPS
\* order, the map revision.
HeaderCells(b) ==
    <<BSP_MAGIC, b.version>>
        \o Flatten([i \in 1..LUMP_COUNT |->
                       <<0, 0, b.lumps[LumpList[i]].version, b.lumps[LumpList[i]].ident>>])
        \o <<b.map_revision>>

\* A game-lump block whose ids are written as they are, not backward.
Mut_GameBlock(gl) ==
    <<Len(gl)>>
        \o Flatten([i \in 1..Len(gl) |->
                       gl[i].id \o <<gl[i].flags, gl[i].version, 0, Len(gl[i].data)>>])
        \o Flatten([i \in 1..Len(gl) |-> gl[i].data])

\* Lines 455-470: the count, an entry per game lump whose offset is a
\* placeholder, then the bytes of each game lump.
GameBlock(gl) ==
    <<Len(gl)>>
        \o Flatten([i \in 1..Len(gl) |->
                       Reverse(gl[i].id) \o <<gl[i].flags, gl[i].version, 0, Len(gl[i].data)>>])
        \o Flatten([i \in 1..Len(gl) |-> gl[i].data])

\* What is written for one lump of the write order.
Payload(b, gl, lump_name) ==
    IF lump_name = GAME_LUMP THEN GameBlock(gl) ELSE b.lumps[lump_name].data

\* file.tell() when the k-th lump of the order is reached.
PayloadStart(b, gl, order, k) ==
    DIR_END + 1 + Len(FlattenRange([j \in 1..Len(order) |-> Payload(b, gl, order[j])],
                                   1, k - 1))

\* file.tell() when the bytes of the i-th game lump are reached.
GameDataStart(gl, lump_start, i) ==
    lump_start + 1 + GAME_ST_CELLS * Len(gl)
        + Len(FlattenRange([j \in 1..Len(gl) |-> gl[j].data], 1, i - 1))

\* The stream of save() before the deferred writes are applied, lines
\* 420-480, the lumps being written in the given order.
SaveStreamIn(b, order) ==
    LET gl == b.game_lumps
        at == CHOOSE k \in 1..Len(order) : order[k] = GAME_LUMP
        lump_start == PayloadStart(b, gl, order, at)
    IN  [cells |-> HeaderCells(b)
                       \o Flatten([k \in 1..Len(order) |-> Payload(b, gl, order[k])]),
         loc |-> [i \in 1..LUMP_COUNT |->
                     Reservation(LumpKey(LumpList[i]),
                                 HEADER_1_CELLS + HEADER_LUMP_CELLS * (i - 1), 2)]
                     \o [i \in 1..Len(gl) |->
                            Reservation(GameKey(gl[i].id),
                                        lump_start + 1 + GAME_ST_CELLS * (i - 1) + 6, 1)],
         data |-> [k \in 1..Len(order) |->
                      Fulfilment(LumpKey(order[k]),
                                 <<PayloadStart(b, gl, order, k),
                                   Len(Payload(b, gl, order[k]))>>)]
                      \o [i \in 1..Len(gl) |->
                             Fulfilment(GameKey(gl[i].id),
                                        <<GameDataStart(gl, lump_start, i)>>)]]

SaveStream(b) == SaveStreamIn(b, LUMP_WRITE_ORDER)

\* The cells of the file save() writes.
SaveFile(b) == DeferredWrite(SaveStream(b))

\* The rebuild of the parsed lumps, lines 413-419: the first exception ends it.
RECURSIVE Rebuild(_, _, _)

\* Lines 414-418: r is what the save function gave for the popped value.
Rebuilt(r, lump, i, reads) ==
    IF ~r.ok THEN Fail(r.b, r.err, reads \cup r.reads)
    ELSE Rebuild(SetData(r.b, lump, r.val), i + 1, reads \cup r.reads)

Rebuild(b, i, reads) ==
    IF i > Len(LUMP_REBUILD_ORDER) THEN Ok(b, <<>>, reads)
    ELSE IF LUMP_REBUILD_ORDER[i] \notin DOMAIN b.parsed THEN Rebuild(b, i + 1, reads)
    ELSE Rebuilt(SaveFunc(Pop(b, LUMP_REBUILD_ORDER[i]), LUMP_REBUILD_ORDER[i],
                          b.parsed[LUMP_REBUILD_ORDER[i]]),
                 LUMP_REBUILD_ORDER[i], i, reads)

\* Lines 420-482: f is the file written from the rebuilt lumps.
Written(r, f) ==
    IF ~f.ok THEN Fail(r.b, "ValueError", r.reads) ELSE Ok(r.b, f.cells, r.reads)

Rebuilding(r) == IF ~r.ok THEN r ELSE Written(r, SaveFile(r.b))

\* BSP.save: val is the cells written to the file; nothing is written when the
\* rebuild raises.
save(b) == Rebuilding(Rebuild(b, 1, {}))

\* file.seek(off); file.read(n)
ReadAt(f, off, n) == SubSeq(f, off + 1, Min(off + n, Len(f)))

\* The lump directory and the lumps' bytes, lines 361-377.
ReadLumps(f) ==
    [l \in BSP_LUMPS |->
        [version |-> f[HEADER_1_CELLS + HEADER_LUMP_CELLS * l + 3],
         ident   |-> f[HEADER_1_CELLS + HEADER_LUMP_CELLS * l + 4],
         data    |-> ReadAt(f, f[HEADER_1_CELLS + HEADER_LUMP_CELLS * l + 1],
                            f[HEADER_1_CELLS + HEADER_LUMP_CELLS * l + 2])]]

\* self.game_lumps[game_lump_id] = GameLump(...): a dict keeps the place of a
\* key it already holds.
PutGameLump(gl, g) ==
    IF \E i \in 1..Len(gl) : gl[i].id = g.id
    THEN [i \in 1..Len(gl) |-> IF gl[i].id = g.id THEN g ELSE gl[i]]
    ELSE Append(gl, g)

\* The game-lump directory, lines 383-406.
RECURSIVE ReadGameLumps(_, _, _, _)
ReadGameLumps(f, dir, i, gl) ==
    IF i > dir[1] THEN gl
    ELSE LET o == 1 + GAME_ST_CELLS * (i - 1)
         IN  ReadGameLumps(f, dir, i + 1,
                 PutGameLump(gl, [id |-> Reverse(SubSeq(dir, o + 1, o + 4)),
                                  flags |-> dir[o + 5], version |-> dir[o + 6],
                                  data |-> ReadAt(f, dir[o + 7], dir[o + 8])]))

\* self.version is None
VERSION_NONE == -1

ParseResult(ok, l, g, rev, ver) ==
    [ok |-> ok, lumps |-> l, game_lumps |-> g, map_revision |-> rev, version |-> ver]

\* Lines 379-406: the directory of the game lumps, then HEADER_2 is what
\* line 377 has read.
ParseGame(f, ls, dir) ==
    IF dir = <<>> \/ Len(dir) < 1 + GAME_ST_CELLS * dir[1]
    THEN ParseResult(FALSE, ls, <<>>, f[DIR_END + 1], f[2])
    ELSE ParseResult(TRUE, [ls EXCEPT ![GAME_LUMP].data = <<>>],
                     ReadGameLumps(f, dir, 1, <<>>), f[DIR_END + 1], f[2])

ParseLumps(f, ls) == ParseGame(f, ls, ls[GAME_LUMP].data)

\* A read that takes the file whatever version the caller asked for.
Mut_ParseFile(f, asked) ==
    IF Len(f) < HEADER_1_CELLS \/ f[1] # BSP_MAGIC
    THEN ParseResult(FALSE, [l \in {} |-> <<>>], <<>>, -1, asked)
    ELSE IF Len(f) < DIR_END + 1
    THEN ParseResult(FALSE, [l \in {} |-> <<>>], <<>>, -1, f[2])
    ELSE ParseLumps(f, ReadLumps(f))

\* BSP.read on the cells f of the file, the instance having version asked
\* (VERSION_NONE when the caller gave none).  A failure leaves the dicts as
\* they were when the exception was raised.
ParseFile(f, asked) ==
    IF Len(f) < HEADER_1_CELLS \/ f[1] # BSP_MAGIC
    THEN ParseResult(FALSE, [l \in {} |-> <<>>], <<>>, -1, asked)
    ELSE IF asked # VERSION_NONE /\ f[2] # asked
    THEN ParseResult(FALSE, [l \in {} |-> <<>>], <<>>, -1, asked)
    ELSE IF Len(f) < DIR_END + 1
    THEN ParseResult(FALSE, [l \in {} |-> <<>>], <<>>, -1, f[2])
    ELSE ParseLumps(f, ReadLumps(f))

(***************************************************************************)
(* Static props: BSP.static_props / BSP.write_static_props on the 'sprp'   *)
(* game lump.  A model name takes its 128 cells; every other struct field  *)
(* takes one cell.                                                         *)
(***************************************************************************)
STR_sprp == <<115, 112, 114, 112>>

\* The oldest and the newest version static_props reads.
SPRP_MIN_VERSION == 4

SPRP_MAX_VERSION == 11

\* '<128s'
MODEL_NAME_CELLS == 128

\* A field of a prop on the wire: its name and its struct format.
Field(name, fmt) == [field |-> name, fmt |-> fmt]

\* The bytes a struct format takes.
FmtWidth(fmt) ==
    CASE fmt \in {"f", "i", "I", "xxxx", "?xxx"} -> 4
      [] fmt = "H" -> 2
      [] fmt = "B" -> 1

\* The fields every version has: '<6fH' and '<HHBBifffff' when written,
\* 'fff' 'fff' '<H' '<HHBBiff' '<fff' when read.
PropBase ==
    <<Field("origin.x", "f"), Field("origin.y", "f"), Field("origin.z", "f"),
      Field("angles.pitch", "f"), Field("angles.yaw", "f"), Field("angles.roll", "f"),
      Field("model_ind", "H"), Field("first_leaf", "H"), Field("leaf_count", "H"),
      Field("solidity", "B"), Field("flags_prim", "B"), Field("skin", "i"),
      Field("min_fade", "f"), Field("max_fade", "f"),
      Field("lighting.x", "f"), Field("lighting.y", "f"), Field("lighting.z", "f")>>

\* The fields both sides have between the base and the flags, by version.
PropMiddle(v) ==
    (IF v >= 5 THEN <<Field("fade_scale", "f")>> ELSE <<>>)
        \o (IF v \in {6, 7}
            THEN <<Field("min_dx_level", "H"), Field("max_dx_level", "H")>> ELSE <<>>)
        \o (IF v >= 8
            THEN <<Field("min_cpu_level", "B"), Field("max_cpu_level", "B"),
                   Field("min_gpu_level", "B"), Field("max_gpu_level", "B")>>
            ELSE <<>>)
        \o (IF v >= 7
            THEN <<Field("tint.x", "B"), Field("tint.y", "B"), Field("tint.z", "B"),
                   Field("renderfx", "B")>>
            ELSE <<>>)

\* The fields of a prop in the order write_static_props writes them.
WriteLayout(v) ==
    PropBase \o PropMiddle(v)
        \o (IF v >= 10 THEN <<Field("flags_sec", "I")>> ELSE <<>>)
        \o (IF v >= 11 THEN <<Field("pad", "xxxx"), Field("scaling", "f")>>
            ELSE IF v >= 9 THEN <<Field("disable_on_xbox", "?xxx")>>
            ELSE <<>>)

\* The fields of a prop in the order static_props reads them.
ReadLayout(v) ==
    PropBase \o PropMiddle(v)
        \o (IF v >= 11 THEN <<Field("unknown_1", "i")>> ELSE <<>>)
        \o (IF v >= 10 THEN <<Field("flags_sec", "I")>> ELSE <<>>)
        \o (IF v >= 11 THEN <<Field("scaling", "f")>>
            ELSE IF v >= 9 THEN <<Field("disable_on_xbox", "?xxx")>>
            ELSE <<>>)

HasField(layout, name) == \E i \in 1..Len(layout) : layout[i].field = name

FieldIndex(layout, name) == CHOOSE i \in 1..Len(layout) : layout[i].field = name

\* StaticPropFlags.value_prim and value_sec
value_prim(flags) == flags % 256

value_sec(flags) == flags \div 256

\* The value write_static_props packs for a field of a prop.
WireValue(prop, name, leaf_off, model_ind) ==
    CASE name = "origin.x" -> prop.origin[1]
      [] name = "origin.y" -> prop.origin[2]
      [] name = "origin.z" -> prop.origin[3]
      [] name = "angles.pitch" -> prop.angles[1]
      [] name = "angles.yaw" -> prop.angles[2]
      [] name = "angles.roll" -> prop.angles[3]
      [] name = "model_ind" -> model_ind
      [] name = "first_leaf" -> leaf_off
      [] name = "leaf_count" -> Len(prop.visleafs)
      [] name = "solidity" -> prop.solidity
      [] name = "flags_prim" -> value_prim(prop.flags)
      [] name = "skin" -> prop.skin
      [] name = "min_fade" -> prop.min_fade
      [] name = "max_fade" -> prop.max_fade
      [] name = "lighting.x" -> prop.lighting[1]
      [] name = "lighting.y" -> prop.lighting[2]
      [] name = "lighting.z" -> prop.lighting[3]
      [] name = "fade_scale" -> prop.fade_scale
      [] name = "min_dx_level" -> prop.min_dx_level
      [] name = "max_dx_level" -> prop.max_dx_level
      [] name = "min_cpu_level" -> prop.min_cpu_level
      [] name = "max_cpu_level" -> prop.max_cpu_level
      [] name = "min_gpu_level" -> prop.min_gpu_level
      [] name = "max_gpu_level" -> prop.max_gpu_level
      [] name = "tint.x" -> prop.tint[1]
      [] name = "tint.y" -> prop.tint[2]
      [] name = "tint.z" -> prop.tint[3]
      [] name = "renderfx" -> prop.renderfx
      [] name = "flags_sec" -> value_sec(prop.flags)
      [] name = "pad" -> 0
      [] name = "scaling" -> prop.scaling
      [] name = "disable_on_xbox" -> IF prop.disable_on_xbox THEN 1 ELSE 0

\* struct.pack('<128s', name): the name, cut or filled with NUL to 128 bytes.
PackName(name) ==
    [i \in 1..MODEL_NAME_CELLS |-> IF i <= Len(name) THEN name[i] ELSE 0]

\* padded_name.rstrip(b'\x00')
RStripNul(s) ==
    SubSeq(s, 1, Max(0, CHOOSE n \in 0..Len(s) :
                            /\ n = 0 \/ s[n] # 0
                            /\ \A j \in (n + 1)..Len(s) : s[j] = 0))

\* leaf_offsets: where the visleafs of the i-th prop start in leaf_array.
LeafOffset(props, i) == Len(Flatten([j \in 1..(i - 1) |-> props[j].visleafs]))

\* The lump write_static_props builds, model_list being the order list(models)
\* gave the set of model names.
PropLump(props, model_list, v) ==
    <<Len(model_list)>>
        \o Flatten([i \in 1..Len(model_list) |-> PackName(model_list[i])])
        \o <<Len(Flatten([i \in 1..Len(props) |-> props[i].visleafs]))>>
        \o Flatten([i \in 1..Len(props) |-> props[i].visleafs])
        \o <<Len(props)>>
        \o Flatten([i \in 1..Len(props) |->
                       [k \in 1..Len(WriteLayout(v)) |->
                           WireValue(props[i], WriteLayout(v)[k].field,
                                     LeafOffset(props, i),
                                     (CHOOSE m \in 1..Len(model_list) :
                                          model_list[m] = props[i].model) - 1)]])

\* The orders list(set) may give the model names of the props.
ModelLists(props) ==
    {ml \in UNION {[1..n -> {props[i].model : i \in 1..Len(props)}] : n \in 0..Len(props)} :
        /\ \A i \in 1..Len(props) : \E m \in 1..Len(ml) : ml[m] = props[i].model
        /\ \A m1, m2 \in 1..Len(ml) : ml[m1] = ml[m2] => m1 = m2}

HasGameLump(gl, id) == \E i \in 1..Len(gl) : gl[i].id = id

GameLumpIndex(gl, id) == CHOOSE i \in 1..Len(gl) : gl[i].id = id

\* BSP.write_static_props(props): game_lump.data = prop_lump.getvalue()
write_static_props(gl, props, model_list) ==
    IF ~HasGameLump(gl, STR_sprp) THEN [ok |-> FALSE, err |-> "KeyError", gl |-> gl]
    ELSE [ok |-> TRUE, err |-> "",
          gl |-> [gl EXCEPT ![GameLumpIndex(gl, STR_sprp)].data =
                     PropLump(props, model_list, gl[GameLumpIndex(gl, STR_sprp)].version)]]

\* The cell of a field of a prop read at a version; cells are those of the prop.
ReadField(cells, v, name) == cells[FieldIndex(ReadLayout(v), name)]

\* The StaticProp static_props yields from the cells of one prop.
ReadProp(cells, v, model_dict, visleaf_list) ==
    [model |-> PyGet(model_dict, ReadField(cells, v, "model_ind")),
     origin |-> <<ReadField(cells, v, "origin.x"), ReadField(cells, v, "origin.y"),
                  ReadField(cells, v, "origin.z")>>,
     angles |-> <<ReadField(cells, v, "angles.pitch"), ReadField(cells, v, "angles.yaw"),
                  ReadField(cells, v, "angles.roll")>>,
     scaling |-> IF v >= 11 THEN ReadField(cells, v, "scaling") ELSE 1,
     visleafs |-> PySlice(visleaf_list, ReadField(cells, v, "first_leaf"),
                          ReadField(cells, v, "first_leaf")
                              + ReadField(cells, v, "leaf_count")),
     solidity |-> ReadField(cells, v, "solidity"),
     flags |-> ReadField(cells, v, "flags_prim")
                   + (IF v >= 10 THEN 256 * ReadField(cells, v, "flags_sec") ELSE 0),
     skin |-> ReadField(cells, v, "skin"),
     min_fade |-> ReadField(cells, v, "min_fade"),
     max_fade |-> ReadField(cells, v, "max_fade"),
     lighting |-> <<ReadField(cells, v, "lighting.x"), ReadField(cells, v, "lighting.y"),
                    ReadField(cells, v, "lighting.z")>>,
     fade_scale |-> IF v >= 5 THEN ReadField(cells, v, "fade_scale") ELSE 1,
     min_dx_level |-> IF v \in {6, 7} THEN ReadField(cells, v, "min_dx_level") ELSE 0,
     max_dx_level |-> IF v \in {6, 7} THEN ReadField(cells, v, "max_dx_level") ELSE 0,
     min_cpu_level |-> IF v >= 8 THEN ReadField(cells, v, "min_cpu_level") ELSE 0,
     max_cpu_level |-> IF v >= 8 THEN ReadField(cells, v, "max_cpu_level") ELSE 0,
     min_gpu_level |-> IF v >= 8 THEN ReadField(cells, v, "min_gpu_level") ELSE 0,
     max_gpu_level |-> IF v >= 8 THEN ReadField(cells, v, "max_gpu_level") ELSE 0,
     tint |-> IF v >= 7
              THEN <<ReadField(cells, v, "tint.x"), ReadField(cells, v, "tint.y"),
                     ReadField(cells, v, "tint.z")>>
              ELSE <<255, 255, 255>>,
     renderfx |-> IF v >= 7 THEN ReadField(cells, v, "renderfx") ELSE 255,
     disable_on_xbox |-> IF v \in {9, 10} THEN ReadField(cells, v, "disable_on_xbox") # 0
                         ELSE FALSE]

\* The sections of the lump: the model names, the visleafs, the props.
PropsOf(data, v, dict_num) ==
    LET names_end == 1 + MODEL_NAME_CELLS * dict_num
        model_dict == [i \in 1..dict_num |->
                          RStripNul(SubSeq(data, 2 + MODEL_NAME_CELLS * (i - 1),
                                           1 + MODEL_NAME_CELLS * i))]
        visleaf_count == data[names_end + 1]
        visleaf_list == SubSeq(data, names_end + 2, names_end + 1 + visleaf_count)
        prop_count == data[names_end + 2 + visleaf_count]
        n == Len(ReadLayout(v))
        start == names_end + 2 + visleaf_count
        cells(i) == SubSeq(data, start + n * (i - 1) + 1, start + n * i)
    IN  IF Len(data) < names_end + 1 \/ Len(data) < start
        THEN [ok |-> FALSE, err |-> "struct.error", val |-> <<>>]
        ELSE IF Len(data) < start + n * prop_count
        THEN [ok |-> FALSE, err |-> "struct.error", val |-> <<>>]
        ELSE IF \E i \in 1..prop_count :
                    ~PyInRange(model_dict, ReadField(cells(i), v, "model_ind"))
        THEN [ok |-> FALSE, err |-> "IndexError", val |-> <<>>]
        ELSE [ok |-> TRUE, err |-> "",
              val |-> [i \in 1..prop_count |->
                          ReadProp(cells(i), v, model_dict, visleaf_list)]]

\* BSP.static_props(), as the list of the props it yields.
static_props(gl) ==
    IF ~HasGameLump(gl, STR_sprp) THEN [ok |-> FALSE, err |-> "ValueError", val |-> <<>>]
    ELSE IF gl[GameLumpIndex(gl, STR_sprp)].version > SPRP_MAX_VERSION
            \/ gl[GameLumpIndex(gl, STR_sprp)].version < SPRP_MIN_VERSION
    THEN [ok |-> FALSE, err |-> "ValueError", val |-> <<>>]
    ELSE IF gl[GameLumpIndex(gl, STR_sprp)].data = <<>>
    THEN [ok |-> FALSE, err |-> "struct.error", val |-> <<>>]
    ELSE PropsOf(gl[GameLumpIndex(gl, STR_sprp)].data,
                 gl[GameLumpIndex(gl, STR_sprp)].version,
                 gl[GameLumpIndex(gl, STR_sprp)].data[1])

(***************************************************************************)
(* The files an instance is constructed from.                              *)
(***************************************************************************)
\* "key" "value"\n
KVLine(key, value) ==
    <<CH_QUOTE>> \o key \o <<CH_QUOTE, CH_SPACE, CH_QUOTE>> \o value \o <<CH_QUOTE, CH_LF>>

\* A world with mapversion 5 and one entity with one comma-style connection.
EntsGood ==
    <<CH_OPEN, CH_LF>> \o KVLine(STR_classname, STR_worldspawn)
        \o KVLine(STR_mapversion, <<53>>) \o <<CH_CLOSE, CH_LF>>
        \o <<CH_OPEN, CH_LF>> \o KVLine(STR_classname, <<97>>)
        \o KVLine(<<79>>, <<116, CH_COMMA, 105, CH_COMMA, CH_COMMA, 48, CH_COMMA, 45, 49>>)
        \o <<CH_CLOSE, CH_LF>> \o <<CH_NUL>>

\* An overlay record on TexInfo texinfo with face_ro and two face indices.
OverlayRecord(id, texinfo, face_ro) ==
    <<id, texinfo, face_ro>> \o <<7, 9>> \o [i \in 1..(OVERLAY_FACES - 2) |-> 0]
        \o <<0, 1, 0, 1>> \o [i \in 1..18 |-> i % 3]

\* The lumps of a file: slot -> [version, ident, data].  A slot no view reads
\* holds a byte or nothing.
FixtureLumps(ents, pak, cubes, strdata, strtable, texdata, texinfo, overlays) ==
    [l \in BSP_LUMPS |->
        [version |-> l % 3, ident |-> 0,
         data |-> CASE l = ENTITIES -> ents
                    [] l = PAKFILE -> pak
                    [] l = CUBEMAPS -> cubes
                    [] l = TEXDATA_STRING_DATA -> strdata
                    [] l = TEXDATA_STRING_TABLE -> strtable
                    [] l = TEXDATA -> texdata
                    [] l = TEXINFO -> texinfo
                    [] l = OVERLAYS -> overlays
                    [] OTHER -> IF l % 8 = 1 THEN <<l>> ELSE <<>>]]

TexInfoRecord(flags, texdata_ind) == [i \in 1..16 |-> i % 2] \o <<flags, texdata_ind>>

GameLumpsGood ==
    <<[id |-> <<115, 112, 114, 112>>, flags |-> 0, version |-> 6, data |-> <<9, 9>>],
      [id |-> <<1, 2, 3, 4>>, flags |-> 1, version |-> 0, data |-> <<>>]>>

\* Every view decodes; two TexInfo share a TexData; the overlay has render
\* order 1 and two faces.
FixtureFull ==
    [lumps |-> FixtureLumps(EntsGood, <<5, ZIP_EOCD>>, <<1, 2, 3, 0>>,
                            <<97, 0, 66, 0>>, <<0, 2>>,
                            <<1, 1, 1, 0, 4, 4, 4, 4>> \o <<0, 0, 0, 1, 8, 8, 8, 8>>,
                            TexInfoRecord(1, 0) \o TexInfoRecord(0, 1) \o TexInfoRecord(2, 0),
                            OverlayRecord(3, 2, OVERLAY_FACE_MOD + 2)),
     parsed |-> [l \in {} |-> <<>>], game_lumps |-> GameLumpsGood,
     map_revision |-> 7, version |-> 21, out_comma_sep |-> "None", next_oid |-> 0]

\* As FixtureFull, but the overlay's render order is 3 and the entity lump
\* closes an entity that was never opened.
FixtureBad ==
    [FixtureFull EXCEPT
        !.lumps[OVERLAYS].data = OverlayRecord(3, 0, 3 * OVERLAY_FACE_MOD + 1),
        !.lumps[ENTITIES].data = <<CH_CLOSE, CH_LF, CH_NUL>>]

\* No TexInfo, TexData or overlays; a name stored twice in the string data; no
\* archive; no game lumps.
FixtureSparse ==
    [FixtureFull EXCEPT
        !.lumps[OVERLAYS].data = <<>>,
        !.lumps[TEXINFO].data = <<>>,
        !.lumps[TEXDATA].data = <<>>,
        !.lumps[TEXDATA_STRING_DATA].data = <<97, 0, 97, 0>>,
        !.lumps[PAKFILE].data = <<>>,
        !.game_lumps = <<>>,
        !.version = 25]

Fixtures == {FixtureFull, FixtureBad, FixtureSparse}

(***************************************************************************)
(* The values a caller assigns to a view.                                  *)
(***************************************************************************)
UserTexData == [oid |-> 100, mat |-> <<78>>, reflectivity |-> <<0, 0, 0>>,
                width |-> 2, height |-> 2]

UserTexInfo ==
    [oid |-> 101, s_off |-> <<1, 0, 0>>, s_shift |-> 0, t_off |-> <<0, 1, 0>>,
     t_shift |-> 0, lightmap_s_off |-> <<1, 0, 0>>, lightmap_s_shift |-> 0,
     lightmap_t_off |-> <<0, 1, 0>>, lightmap_t_shift |-> 0, flags |-> 0,
     info |-> UserTexData]

SetValues(lump) ==
    CASE lump = PAKFILE ->
             {[prefix |-> <<>>, files |-> <<6>>, fp |-> "BytesIO"],
              [prefix |-> <<>>, files |-> <<6>>, fp |-> "file"]}
      [] lump = ENTITIES ->
             {[NewVMF EXCEPT !.spawn = SetKey(NewEntity, STR_classname, STR_worldspawn)]}
      [] lump = TEXDATA_STRING_DATA -> {<<<<99>>>>}
      [] lump = TEXINFO -> {<<>>, <<UserTexInfo>>}
      [] lump = CUBEMAPS -> {<<[origin |-> <<0, 0, 0>>, size |-> 1]>>}
      [] lump = OVERLAYS -> {<<>>}

(***************************************************************************)
(* The calls on an instance.                                               *)
(***************************************************************************)
\* Decodes stop once this many objects have been allocated.
MaxOid == 6

\* No more than this many calls are made on an instance.
MaxOps == 3

\* The archive is given no more than this many member files.
MaxPakFiles == 2

Paths == {"bsp"}

Become(b) ==
    /\ lumps' = b.lumps
    /\ parsed_lumps' = b.parsed
    /\ game_lumps' = b.game_lumps
    /\ map_revision' = b.map_revision
    /\ version' = b.version
    /\ out_comma_sep' = b.out_comma_sep
    /\ next_oid' = b.next_oid

\* What is remembered of a call: n counts the calls made on the instance.
Call(op, lump, path, r) ==
    [op |-> op, lump |-> lump, path |-> path, ok |-> r.ok, err |-> r.err,
     ret |-> r.val, reads |-> r.reads, n |-> last.n + 1]

MayCall == last.n < MaxOps

\* value = bsp.<view>
GetView(lump) ==
    /\ MayCall
    /\ lump \in DOMAIN parsed_lumps \/ next_oid < MaxOid
    /\ \E r \in {DescriptorGet(Self, lump)} :
           /\ Become(r.b)
           /\ last' = Call("get", lump, "", r)
    /\ UNCHANGED files

\* bsp.<view> = value
SetView(lump, value) ==
    /\ MayCall
    /\ \E r \in {DescriptorSet(Self, lump, value)} :
           /\ Become(r.b)
           /\ last' = [Call("set", lump, "", r) EXCEPT !.ret = value]
    /\ UNCHANGED files

\* The file is replaced only when save() completes; r is what save() gave.
Saved(r, op, lump, path, arg) ==
    /\ MayCall
    /\ Become(r.b)
    /\ files' = IF r.ok THEN [files EXCEPT ![path] = r.val] ELSE files
    /\ last' = [Call(op, lump, path, r) EXCEPT !.ret = arg]

\* bsp.save(filename)
Save(path) == Saved(save(Self), "save", -1, path, <<>>)

\* bsp.replace_lump(new_name, lump, new_data)
ReplaceLump(path, lump, new_data) ==
    Saved(save(SetData(Self, lump, new_data)), "replace_lump", lump, path, new_data)

\* with bsp.packfile() as zip_file: the body adds the member files add, or
\* raises; an exception in the body leaves the lump as it was.
Packfile(add, raises) ==
    /\ MayCall
    /\ Len(ZipOpen(lumps[PAKFILE].data).files) + Len(add) <= MaxPakFiles
    /\ LET zip == ZipOpen(lumps[PAKFILE].data)
           b2  == SetData(Self, PAKFILE, ZipBytes([zip EXCEPT !.files = @ \o add]))
       IN  IF raises
           THEN /\ Become(Self)
                /\ last' = Call("packfile", PAKFILE, "", Fail(Self, "Exception", {}))
           ELSE /\ Become(b2)
                /\ last' = [Call("packfile", PAKFILE, "", Ok(b2, <<>>, {})) EXCEPT !.ret = add]
    /\ UNCHANGED files

\* bsp.read(): the instance keeps its version; nothing else of it survives
\* but what read() does not touch.
Read ==
    /\ MayCall
    /\ \E p \in {ParseFile(files["bsp"], version)} :
           /\ lumps' = p.lumps
           /\ game_lumps' = p.game_lumps
           /\ map_revision' = IF p.ok THEN p.map_revision ELSE map_revision
           /\ version' = p.version
           /\ last' = [op |-> "read", lump |-> -1, path |-> "bsp", ok |-> p.ok,
                       err |-> IF p.ok THEN "" ELSE "Error", ret |-> <<>>, reads |-> {},
                       n |-> last.n + 1]
    /\ UNCHANGED <<parsed_lumps, out_comma_sep, next_oid, files>>

\* BSP(filename): the instance after __init__ has read the file f.
ConstructedFrom(f, p) ==
    /\ lumps = p.lumps
    /\ parsed_lumps = [l \in {} |-> <<>>]
    /\ game_lumps = p.game_lumps
    /\ map_revision = p.map_revision
    /\ version = p.version
    /\ out_comma_sep = "None"
    /\ next_oid = 0
    /\ files = [path \in Paths |-> IF path = "bsp" THEN f ELSE <<>>]
    /\ last = [op |-> "init", lump |-> -1, path |-> "bsp", ok |-> TRUE, err |-> "",
               ret |-> <<>>, reads |-> {}, n |-> 0]

Constructed(fx) ==
    \E f \in {SaveFile(fx).cells} : ConstructedFrom(f, ParseFile(f, VERSION_NONE))

OpIdle ==
    /\ op_pc = "idle"
    /\ op_in = <<>>
    /\ op_mid = <<>>
    /\ op_out = <<>>

Init == (\E fx \in Fixtures : Constructed(fx)) /\ OpIdle

Next ==
    \/ \E lump \in ViewLumps : GetView(lump) /\ UNCHANGED opVars
    \/ \E lump \in ViewLumps : \E value \in SetValues(lump) :
           SetView(lump, value) /\ UNCHANGED opVars
    \/ \E path \in Paths : Save(path) /\ UNCHANGED opVars
    \/ \E path \in Paths : \E lump \in {PLANES, PAKFILE, TEXDATA} :
           ReplaceLump(path, lump, <<8, ZIP_EOCD>>) /\ UNCHANGED opVars
    \/ \E add \in {<<>>, <<7>>} : \E raises \in BOOLEAN :
           Packfile(add, raises) /\ UNCHANGED opVars
    \/ Read /\ UNCHANGED opVars

Spec == Init /\ [][Next]_vars

\* The calls of an instance that is not read again from its file.
NextOps ==
    \/ \E lump \in ViewLumps : GetView(lump) /\ UNCHANGED opVars
    \/ \E lump \in ViewLumps : \E value \in SetValues(lump) :
           SetView(lump, value) /\ UNCHANGED opVars
    \/ \E path \in Paths : Save(path) /\ UNCHANGED opVars
    \/ \E path \in Paths : \E lump \in {PLANES, PAKFILE, TEXDATA} :
           ReplaceLump(path, lump, <<8, ZIP_EOCD>>) /\ UNCHANGED opVars
    \/ \E add \in {<<>>, <<7>>} : \E raises \in BOOLEAN :
           Packfile(add, raises) /\ UNCHANGED opVars

SpecOps == Init /\ [][NextOps]_vars

\* An instance whose views are only read.
NextLazy == \E lump \in ViewLumps : GetView(lump) /\ UNCHANGED opVars

SpecLazy == Init /\ [][NextLazy]_vars

(***************************************************************************)
(* Texture names: a list of names is assigned, saved and read back; and    *)
(* the string data of a file is read.                                      *)
(***************************************************************************)
\* The longest name tried.
MaxNameLen == 129

\* No more names than this are in a list.
MaxNames == 2

TexName(n, c) == [i \in 1..n |-> c]

NameLens == {0, 1} \cup ((TEX_NAME_LIMIT - 2)..MaxNameLen)

TexNames == {TexName(n, 97) : n \in NameLens} \cup {TexName(1, 66)}

TexLists == UNION {[1..k -> TexNames] : k \in 0..MaxNames}

\* String data of a file: a name with or without its NUL; the table holds the
\* offsets.
RawBlobs == {TexName(n, 97) \o t : n \in NameLens \ {0}, t \in {<<>>, <<0>>}}

RawTables == {<<0>>, <<0, 1>>}

FixtureTex(blob, table) ==
    [FixtureSparse EXCEPT !.lumps[TEXDATA_STRING_DATA].data = blob,
                          !.lumps[TEXDATA_STRING_TABLE].data = table]

InitTex ==
    /\ \E blob \in RawBlobs : \E table \in RawTables : Constructed(FixtureTex(blob, table))
    /\ OpIdle

\* bsp.textures, on the file as it is.
TexGetRaw ==
    /\ op_pc = "idle"
    /\ GetView(TEXDATA_STRING_DATA)
    /\ op_pc' = "got_raw"
    /\ op_mid' = [data |-> lumps[TEXDATA_STRING_DATA].data,
                  table |-> lumps[TEXDATA_STRING_TABLE].data]
    /\ UNCHANGED <<op_in, op_out>>

\* bsp.textures = names
TexSet(names) ==
    /\ op_pc = "idle"
    /\ SetView(TEXDATA_STRING_DATA, names)
    /\ op_pc' = "set"
    /\ op_in' = names
    /\ UNCHANGED <<op_mid, op_out>>

\* bsp.save()
TexSave ==
    /\ op_pc = "set"
    /\ \E path \in Paths : Save(path)
    /\ op_pc' = "saved"
    /\ UNCHANGED <<op_in, op_mid, op_out>>

\* bsp.textures, after the save.
TexGetBack ==
    /\ op_pc = "saved"
    /\ last.ok
    /\ GetView(TEXDATA_STRING_DATA)
    /\ op_pc' = "got"
    /\ UNCHANGED <<op_in, op_mid, op_out>>

NextTex ==
    \/ TexGetRaw
    \/ \E names \in TexLists : TexSet(names)
    \/ TexSave
    \/ TexGetBack

SpecTex == InitTex /\ [][NextTex]_vars

(***************************************************************************)
(* Static props: a list of props is written to the game lump of an        *)
(* instance and read back.                                                 *)
(***************************************************************************)
\* No more props than this are in a list.
MaxProps == 2

\* StaticProp(model, origin, ...): the fields not given have the defaults of
\* the class.
DefaultProp(model) ==
    [model |-> model, origin |-> <<1, 2, 3>>, angles |-> <<0, 0, 0>>, scaling |-> 1,
     visleafs |-> <<>>, solidity |-> 6, flags |-> 0, skin |-> 0, min_fade |-> 0,
     max_fade |-> 0, lighting |-> <<1, 2, 3>>, fade_scale |-> -1,
     min_dx_level |-> 0, max_dx_level |-> 0, min_cpu_level |-> 0, max_cpu_level |-> 0,
     min_gpu_level |-> 0, max_gpu_level |-> 0, tint |-> <<255, 255, 255>>,
     renderfx |-> 255, disable_on_xbox |-> FALSE]

\* A prop with the defaults; a prop with no default left; a prop with the
\* secondary flag NO_FLASHLIGHT (0x100) and DOES_FADE.
PropChoices ==
    {DefaultProp(<<109>>),
     [model |-> <<110, 50>>, origin |-> <<4, 5, 6>>, angles |-> <<0, 90, 0>>,
      scaling |-> 2, visleafs |-> <<3, 4>>, solidity |-> 0, flags |-> 2, skin |-> 1,
      min_fade |-> 10, max_fade |-> 20, lighting |-> <<7, 8, 9>>, fade_scale |-> 3,
      min_dx_level |-> 80, max_dx_level |-> 90, min_cpu_level |-> 1,
      max_cpu_level |-> 2, min_gpu_level |-> 3, max_gpu_level |-> 4,
      tint |-> <<10, 20, 30>>, renderfx |-> 5, disable_on_xbox |-> TRUE],
     [DefaultProp(<<109>>) EXCEPT !.flags = 257, !.visleafs = <<5>>]}

PropLists == UNION {[1..k -> PropChoices] : k \in 0..MaxProps}

\* The instance is constructed from a file whose static prop lump has the
\* version v.
InitProps ==
    /\ \E v \in SPRP_MIN_VERSION..SPRP_MAX_VERSION :
           Constructed([FixtureFull EXCEPT !.game_lumps[1].version = v])
    /\ OpIdle

ChooseProps(props) ==
    /\ op_pc = "idle"
    /\ op_pc' = "props"
    /\ op_in' = props
    /\ UNCHANGED <<bspVars, op_mid, op_out>>

\* bsp.write_static_props(props)
WriteProps ==
    /\ op_pc = "props"
    /\ \E model_list \in ModelLists(op_in) :
           /\ game_lumps' = write_static_props(game_lumps, op_in, model_list).gl
           /\ op_mid' = model_list
    /\ op_pc' = "written"
    /\ UNCHANGED <<lumps, parsed_lumps, map_revision, version, out_comma_sep, next_oid,
                   files, last, op_in, op_out>>

\* list(bsp.static_props())
ReadProps ==
    /\ op_pc = "written"
    /\ op_out' = static_props(game_lumps)
    /\ op_pc' = "read"
    /\ UNCHANGED <<bspVars, op_in, op_mid>>

NextProps ==
    \/ \E props \in PropLists : ChooseProps(props)
    \/ WriteProps
    \/ ReadProps

SpecProps == InitProps /\ [][NextProps]_vars

(***************************************************************************)
(* TexInfo: a list of TexInfo is encoded twice in a row by                 *)
(* _lmp_write_texinfo, as save() calls it.                                 *)
(***************************************************************************)
\* No more TexInfo than this are in a list a caller builds.
MaxInfos == 2

\* TexInfo a caller builds: on a material no name of the file has, on a
\* material the file has in another case, on a material of the file.
InfoChoices ==
    {UserTexInfo,
     [UserTexInfo EXCEPT !.oid = 103, !.info.oid = 102, !.info.mat = <<65>>],
     [UserTexInfo EXCEPT !.oid = 105, !.info.oid = 104, !.info.mat = <<97>>]}

InfoLists == UNION {[1..k -> InfoChoices] : k \in 0..MaxInfos}

InitInfo == (\E fx \in Fixtures : Constructed(fx)) /\ OpIdle

\* texinfos = a list the caller builds
InfoChoose(texinfos) ==
    /\ op_pc = "idle"
    /\ op_pc' = "chosen"
    /\ op_in' = texinfos
    /\ UNCHANGED <<bspVars, op_mid, op_out>>

\* texinfos = bsp.texinfo
InfoRead ==
    /\ op_pc = "idle"
    /\ GetView(TEXINFO)
    /\ last'.ok
    /\ op_pc' = "chosen"
    /\ op_in' = last'.ret
    /\ UNCHANGED <<op_mid, op_out>>

\* What is kept of an encode: its outcome, the names of the textures view and
\* the TexData lump after it.
Encoded(r) ==
    [ok |-> r.ok, err |-> r.err, val |-> r.val,
     names |-> IF TEXDATA_STRING_DATA \in DOMAIN r.b.parsed
               THEN r.b.parsed[TEXDATA_STRING_DATA] ELSE <<>>,
     texdata |-> r.b.lumps[TEXDATA].data]

\* bsp._lmp_write_texinfo(texinfos)
InfoEncode ==
    /\ op_pc = "chosen"
    /\ \E r \in {lmp_write_texinfo(Self, op_in)} :
           /\ Become(r.b)
           /\ op_mid' = Encoded(r)
    /\ op_pc' = "once"
    /\ UNCHANGED <<files, last, op_in, op_out>>

\* bsp._lmp_write_texinfo(texinfos), again
InfoEncodeAgain ==
    /\ op_pc = "once"
    /\ \E r \in {lmp_write_texinfo(Self, op_in)} :
           /\ Become(r.b)
           /\ op_out' = Encoded(r)
    /\ op_pc' = "twice"
    /\ UNCHANGED <<files, last, op_in, op_mid>>

NextInfo ==
    \/ \E texinfos \in InfoLists : InfoChoose(texinfos)
    \/ InfoRead
    \/ InfoEncode
    \/ InfoEncodeAgain

SpecInfo == InitInfo /\ [][NextInfo]_vars

(***************************************************************************)
(* vis_tree(): the planes, nodes and leafs of the raw lumps are parsed,    *)
(* then linked.  A node or a leaf is known by its place in its list; a     *)
(* child is a reference [kind, ind] to one.  A pad byte is a cell.         *)
(***************************************************************************)
\* The values of the enum VERSIONS.
VERSIONS == {17, 18, 19, 20, 21, 22, 23, 29, 42}

\* '<ffffi'
PLANE_CELLS == 5

\* '<iii6hHHh2x'
NODE_CELLS == 14

\* '<ihh6h4Hh2x', and the '26x' of the versions up to 19.
LEAF_CELLS == 16

LEAF_AMBIENT_CELLS == 26

LEAF_AMBIENT_VERSION == 19

LEAF_FLAG_MOD == 128

LeafCells(ver) == IF ver <= LEAF_AMBIENT_VERSION THEN LEAF_CELLS + LEAF_AMBIENT_CELLS
                  ELSE LEAF_CELLS

NoChild == [kind |-> "None", ind |-> 0]

\* Lines 1107-1108.
VisPlanes(data) ==
    [i \in 1..(Len(data) \div PLANE_CELLS) |->
        [norm |-> SubSeq(Records(data, PLANE_CELLS)[i], 1, 3),
         dist |-> Records(data, PLANE_CELLS)[i][4]]]

\* Lines 1115-1121: VisTree(...) of a node record, its children not set.
VisNode(planes, r) ==
    [plane_norm |-> PyGet(planes, r[1]).norm, plane_dist |-> PyGet(planes, r[1]).dist,
     mins |-> SubSeq(r, 4, 6), maxes |-> SubSeq(r, 7, 9),
     child_neg |-> NoChild, child_pos |-> NoChild]

\* Lines 1137-1146: VisLeaf(i, ...) of a leaf record.
VisLeafOf(i, r) ==
    [id |-> i, area |-> r[3] \div LEAF_FLAG_MOD, flags |-> r[3] % LEAF_FLAG_MOD,
     mins |-> SubSeq(r, 4, 6), maxes |-> SubSeq(r, 7, 9),
     first_face |-> r[10], face_count |-> r[11],
     first_brush |-> r[12], brush_count |-> r[13], water_id |-> r[14]]

\* Lines 1149-1156: the object an index of a child is for, and whether there
\* is one.
ChildOk(nodes, leafs, c) == IF c < 0 THEN -1 - c < Len(leafs) ELSE c < Len(nodes)

\* The children the other way round: the leaf at -c, and the slots swapped.
Mut_Child(c) ==
    IF c < 0 THEN [kind |-> "leaf", ind |-> -c] ELSE [kind |-> "node", ind |-> c]

Child(c) ==
    IF c < 0 THEN [kind |-> "leaf", ind |-> -1 - c] ELSE [kind |-> "node", ind |-> c]

\* Lines 1148-1158: every node is linked, and the first node is returned.
VisLinked(recs, nodes, leafs) ==
    IF \E i \in 1..Len(recs) : ~ChildOk(nodes, leafs, recs[i][2])
                                   \/ ~ChildOk(nodes, leafs, recs[i][3])
    THEN [ok |-> FALSE, err |-> "IndexError", val |-> <<>>]
    ELSE IF nodes = <<>> THEN [ok |-> FALSE, err |-> "IndexError", val |-> <<>>]
    ELSE [ok |-> TRUE, err |-> "",
          val |-> [root |-> [kind |-> "node", ind |-> 0],
                   nodes |-> [i \in 1..Len(recs) |->
                                 [nodes[i] EXCEPT !.child_neg = Child(recs[i][2]),
                                                  !.child_pos = Child(recs[i][3])]],
                   leafs |-> leafs]]

\* Lines 1123-1146: the leafs, in the format of the version.
VisLeafs(b, recs, nodes) ==
    IF b.version \notin VERSIONS THEN [ok |-> FALSE, err |-> "AttributeError", val |-> <<>>]
    ELSE IF Len(b.lumps[LEAFS].data) % LeafCells(b.version) # 0
    THEN [ok |-> FALSE, err |-> "struct.error", val |-> <<>>]
    ELSE VisLinked(recs, nodes,
                   [i \in 1..(Len(b.lumps[LEAFS].data) \div LeafCells(b.version)) |->
                       VisLeafOf(i - 1, Records(b.lumps[LEAFS].data,
                                                LeafCells(b.version))[i])])

\* Lines 1110-1121: the nodes, each with the plane of its index.
VisNodes(b, planes, recs) ==
    IF \E i \in 1..Len(recs) : ~PyInRange(planes, recs[i][1])
    THEN [ok |-> FALSE, err |-> "IndexError", val |-> <<>>]
    ELSE VisLeafs(b, recs, [i \in 1..Len(recs) |-> VisNode(planes, recs[i])])

\* BSP.vis_tree() of an instance made with no version asked for, whose
\* version is a VERSIONS member if the number of the file is one.
vis_tree(b) ==
    IF Len(b.lumps[PLANES].data) % PLANE_CELLS # 0
    THEN [ok |-> FALSE, err |-> "struct.error", val |-> <<>>]
    ELSE IF Len(b.lumps[NODES].data) % NODE_CELLS # 0
    THEN [ok |-> FALSE, err |-> "struct.error", val |-> <<>>]
    ELSE VisNodes(b, VisPlanes(b.lumps[PLANES].data),
                  Records(b.lumps[NODES].data, NODE_CELLS))

\* No more nodes than this are in the lump, and this many leafs.
MaxNodes == 2

NumLeafs == 2

\* The indexes of children: two leafs, a third, and two nodes.
ChildRefs == -3..1

NodeRec(plane_ind, neg_ind, pos_ind) ==
    <<plane_ind, neg_ind, pos_ind, 1, 2, 3, 4, 5, 6, 0, 1, 0, 0, 0>>

LeafRec(k, ambient) ==
    <<1, k, 128 * k + 3, 1, 2, 3, 4, 5, 6, k, 1, k, 1, -1, 0, 0>>
        \o (IF ambient THEN [i \in 1..LEAF_AMBIENT_CELLS |-> 0] ELSE <<>>)

\* Nodes of the one plane with any children, and a node of no plane.
NodeChoices ==
    {<<0, n, p>> : n \in ChildRefs, p \in ChildRefs} \cup {<<1, -1, -2>>}

NodeLists == UNION {[1..k -> NodeChoices] : k \in 0..MaxNodes}

InitVis ==
    /\ \E ver \in {19, 21, 25} : Constructed([FixtureSparse EXCEPT !.version = ver])
    /\ OpIdle

\* bsp.lumps[...].data = the bytes of a plane, of some nodes and of the leafs
VisLoad ==
    /\ op_pc = "idle"
    /\ op_pc' = "loaded"
    /\ \E ns \in NodeLists : \E ambient \in BOOLEAN :
           /\ lumps' = [lumps EXCEPT
                  ![PLANES].data = <<0, 0, 1, 5, 0>>,
                  ![NODES].data =
                      Flatten([i \in 1..Len(ns) |-> NodeRec(ns[i][1], ns[i][2], ns[i][3])]),
                  ![LEAFS].data = Flatten([k \in 1..NumLeafs |-> LeafRec(k, ambient)])]
           /\ op_in' = [nodes |-> ns, ambient |-> ambient]
    /\ UNCHANGED <<parsed_lumps, game_lumps, map_revision, version, out_comma_sep,
                   next_oid, files, last, op_mid, op_out>>

\* bsp.vis_tree()
VisTree ==
    /\ op_pc = "loaded"
    /\ op_pc' = "done"
    /\ op_out' = vis_tree(Self)
    /\ UNCHANGED <<bspVars, files, last, op_in, op_mid>>

NextVis == VisLoad \/ VisTree

SpecVis == InitVis /\ [][NextVis]_vars

(***************************************************************************)
(* BSP(filename, version): __init__ has set the fields, and read() is      *)
(* called on a file of some magic and version.                             *)
(***************************************************************************)
\* The versions of the files and those a caller asks for: two of VERSIONS
\* and two that are none of them.
FileVersions == {19, 21, 25, 0}

AskedVersions == {VERSION_NONE, 19, 21, 25}

\* The first four bytes of a file that is no BSP.
OtherMagics == {BSP_MAGIC + 1, 0}

InitRead ==
    /\ \E fx \in Fixtures : \E ver \in FileVersions : \E magic \in {BSP_MAGIC} \cup OtherMagics :
           files = [path \in Paths |->
                       IF path = "bsp"
                       THEN [SaveFile([fx EXCEPT !.version = ver]).cells EXCEPT ![1] = magic]
                       ELSE <<>>]
    /\ lumps = [l \in {} |-> <<>>]
    /\ parsed_lumps = [l \in {} |-> <<>>]
    /\ game_lumps = <<>>
    /\ map_revision = -1
    /\ version \in AskedVersions
    /\ out_comma_sep = "None"
    /\ next_oid = 0
    /\ last = [op |-> "init", lump |-> -1, path |-> "bsp", ok |-> TRUE, err |-> "",
               ret |-> <<>>, reads |-> {}, n |-> 0]
    /\ op_pc = "idle"
    /\ op_in = version
    /\ op_mid = <<>>
    /\ op_out = <<>>

\* self.read(), at the end of __init__.
FileRead ==
    /\ op_pc = "idle"
    /\ Read
    /\ op_pc' = "read"
    /\ UNCHANGED <<op_in, op_mid, op_out>>

\* A view of the container that was loaded.
FileGet ==
    /\ op_pc = "read"
    /\ last.ok
    /\ \E lump \in {ENTITIES, CUBEMAPS} : GetView(lump)
    /\ op_pc' = "used"
    /\ UNCHANGED <<op_in, op_mid, op_out>>

NextRead == FileRead \/ FileGet

SpecRead == InitRead /\ [][NextRead]_vars

(***************************************************************************)
(* Entities: the entity lump is given the bytes of a list of lines, and    *)
(* bsp.ents is read.                                                       *)
(***************************************************************************)
\* No more lines than this follow the first entities of the lump.
MaxEntLines == 3

\* A line "key" "value", without its line end.
KV(key, value) ==
    <<CH_QUOTE>> \o key \o <<CH_QUOTE, CH_SPACE, CH_QUOTE>> \o value \o <<CH_QUOTE>>

\* Values: plain; a record separated by 0x1D; a record separated by commas;
\* four commas that are no record; the byte 27 in what is no record; the
\* byte 27 in a record separated by commas.
VAL_PLAIN == <<118>>

VAL_SEP == <<116, OUTPUT_SEP, 105, OUTPUT_SEP, 112, OUTPUT_SEP, 48, OUTPUT_SEP, 49>>

VAL_COMMA == <<116, CH_COMMA, 105, CH_COMMA, 112, CH_COMMA, 48, CH_COMMA, 49>>

VAL_FOUR == <<97, CH_COMMA, 98, CH_COMMA, 99, CH_COMMA, 100, CH_COMMA, 101>>

VAL_ESC == <<116, VALUE_SEP_TEST, 105>>

VAL_ESC_COMMA ==
    <<116, VALUE_SEP_TEST, CH_COMMA, 105, CH_COMMA, 112, CH_COMMA, 48, CH_COMMA, 49>>

EntValues == {VAL_PLAIN, VAL_SEP, VAL_COMMA, VAL_FOUR, VAL_ESC, VAL_ESC_COMMA}

\* The lines a lump is made of.
EntLines ==
    {<<CH_OPEN>>, <<CH_CLOSE>>, <<CH_NUL>>} \cup {KV(<<107>>, v) : v \in EntValues}

\* How a lump starts: with nothing, with the world, with a world of another
\* class, with the world and an entity.
EntHeads ==
    {<<>>,
     <<<<CH_OPEN>>, KV(STR_classname, STR_worldspawn), <<CH_CLOSE>>>>,
     <<<<CH_OPEN>>, KV(STR_classname, <<120>>), <<CH_CLOSE>>>>,
     <<<<CH_OPEN>>, KV(STR_classname, STR_worldspawn), <<CH_CLOSE>>,
       <<CH_OPEN>>, KV(STR_classname, <<97>>), <<CH_CLOSE>>>>}

EntTails == UNION {[1..k -> EntLines] : k \in 0..MaxEntLines}

\* The bytes of the lines, each ended by a line feed.
JoinLines(lines) == Flatten([i \in 1..Len(lines) |-> lines[i] \o <<CH_LF>>])

InitEnts == Constructed(FixtureSparse) /\ OpIdle

\* bsp.lumps[BSP_LUMPS.ENTITIES].data = the bytes of some lines
EntsLoad ==
    /\ op_pc = "idle"
    /\ op_pc' = "loaded"
    /\ \E head \in EntHeads : \E tail \in EntTails :
           /\ lumps' = [lumps EXCEPT ![ENTITIES].data = JoinLines(head \o tail)]
           /\ op_in' = head \o tail
    /\ UNCHANGED <<parsed_lumps, game_lumps, map_revision, version, out_comma_sep,
                   next_oid, files, last, op_mid, op_out>>

\* bsp.ents, on the lump as it is.
EntsGet ==
    /\ op_pc = "loaded"
    /\ GetView(ENTITIES)
    /\ op_pc' = "got"
    /\ UNCHANGED <<op_in, op_mid, op_out>>

NextEnts == EntsLoad \/ EntsGet

SpecEnts == InitEnts /\ [][NextEnts]_vars

(***************************************************************************)
(* Entities: a VMF is encoded with commas and the bytes are decoded.       *)
(***************************************************************************)
\* No more entities than this follow the world.
MaxEnts == 2

\* Values of attributes: the values of the lines, a quote, an escaped quote.
AttrValues == EntValues \cup {<<97, CH_QUOTE, 98>>, <<CH_BACKSLASH, CH_QUOTE>>}

\* Records: one in each style, one with a comma in its parameters, one with
\* 0x1D in them, one with the byte 27 in them.
RecordOf(params, comma_sep) ==
    [output |-> <<111>>, target |-> <<116>>, input |-> <<105>>, params |-> params,
     delay |-> 0, times |-> 1, comma_sep |-> comma_sep]

OutRecords ==
    {RecordOf(<<112>>, TRUE), RecordOf(<<112>>, FALSE), RecordOf(<<97, CH_COMMA, 98>>, TRUE),
     RecordOf(<<97, OUTPUT_SEP, 98>>, TRUE), RecordOf(<<97, VALUE_SEP_TEST, 98>>, TRUE)}

\* Entities: an attribute, a record, or both.
EntChoices ==
    {[keys |-> <<<<<<107>>, v>>>>, outputs |-> <<>>] : v \in AttrValues}
        \cup {[keys |-> <<>>, outputs |-> <<o>>] : o \in OutRecords}
        \cup {[keys |-> <<<<<<107>>, VAL_PLAIN>>>>, outputs |-> <<RecordOf(<<112>>, TRUE)>>]}

\* Worlds: classname worldspawn, and an attribute or none.
WorldChoices ==
    {[keys |-> <<<<STR_classname, STR_worldspawn>>>>, outputs |-> <<>>]}
        \cup {[keys |-> <<<<STR_classname, STR_worldspawn>>, <<<<107>>, v>>>>,
               outputs |-> <<>>] : v \in AttrValues}

VMFChoices ==
    {[spawn |-> w, entities |-> es, map_ver |-> 0] :
        w \in WorldChoices, es \in UNION {[1..k -> EntChoices] : k \in 0..MaxEnts}}

InitRound ==
    /\ Constructed(FixtureSparse)
    /\ op_pc = "idle"
    /\ op_in \in VMFChoices
    /\ op_mid = <<>>
    /\ op_out = <<>>

\* BSP.write_ent_data(vmf, True)
RoundEncode ==
    /\ op_pc = "idle"
    /\ op_pc' = "encoded"
    /\ op_mid' = write_ent_data(op_in, "True")
    /\ UNCHANGED <<bspVars, files, last, op_in, op_out>>

\* bsp._lmp_read_ents(data)
RoundDecode ==
    /\ op_pc = "encoded"
    /\ op_pc' = "decoded"
    /\ \E r \in {lmp_read_ents(Self, op_mid)} : Become(r.b) /\ op_out' = r
    /\ UNCHANGED <<files, last, op_in, op_mid>>

NextRound == RoundEncode \/ RoundDecode

SpecRound == InitRound /\ [][NextRound]_vars

(***************************************************************************)
(* Overlays: the overlay lump of a file is a list of records; bsp.overlays *)
(* is read; an Overlay is made and its render order set.                   *)
(***************************************************************************)
\* No more overlay records than this are in the lump.
MaxOverlays == 2

\* A record with a face array of 64 different faces.
OverRec(texinfo, face_ro) ==
    <<5, texinfo, face_ro>> \o [i \in 1..OVERLAY_FACES |-> 100 + i]
        \o <<0, 1, 0, 1>> \o [i \in 1..18 |-> i % 3]

\* The packed fields: face counts 2, 64, 65 and 16383, render orders 0 to 3.
FaceRos ==
    {2, OVERLAY_FACES, OVERLAY_FACES + 1, OVERLAY_FACE_MOD + 1,
     2 * OVERLAY_FACE_MOD + OVERLAY_FACES, 3 * OVERLAY_FACE_MOD + 1, 65535}

OverRecs == {OverRec(t, f) : t \in {0, 3}, f \in FaceRos}

OverLists == UNION {[1..k -> OverRecs] : k \in 0..MaxOverlays}

\* What Overlay() is called with by a user.
UserOverlay(render_order) ==
    [id |-> 9, origin |-> <<0, 0, 0>>, normal |-> <<0, 0, 1>>, texture |-> UserTexInfo,
     face_count |-> 1, faces |-> <<4>>, render_order |-> render_order,
     u_min |-> 0, u_max |-> 1, v_min |-> 0, v_max |-> 1,
     uv1 |-> <<-16, -16, 0>>, uv2 |-> <<-16, 16, 0>>,
     uv3 |-> <<16, 16, 0>>, uv4 |-> <<16, -16, 0>>]

RenderOrders == -1..4

InitOver ==
    /\ \E recs \in OverLists :
           /\ Constructed([FixtureFull EXCEPT !.lumps[OVERLAYS].data = Flatten(recs)])
           /\ op_in = recs
    /\ op_pc = "idle"
    /\ op_mid = <<>>
    /\ op_out = <<>>

\* bsp.overlays
OverGet ==
    /\ op_pc = "idle"
    /\ GetView(OVERLAYS)
    /\ op_pc' = "got"
    /\ UNCHANGED <<op_in, op_mid, op_out>>

\* Overlay(..., render_order=n)
OverMake ==
    /\ op_pc = "idle"
    /\ op_pc' = "made"
    /\ \E n \in RenderOrders : \E r \in {OverlayInit(UserOverlay(n))} :
           op_mid' = [ok |-> r.ok, err |-> r.err, val |-> r.val, asked |-> n]
    /\ UNCHANGED <<bspVars, files, last, op_in, op_out>>

\* overlay.render_order = n; a set that fails leaves the overlay as it was.
OverSetOrder ==
    /\ op_pc = "made"
    /\ op_mid.ok
    /\ op_pc' = "set"
    /\ \E n \in RenderOrders : \E r \in {OverlaySetOrder(op_mid.val, n)} :
           /\ op_out' = [ok |-> r.ok, err |-> r.err, val |-> r.val, asked |-> n]
           /\ op_mid' = IF r.ok THEN [op_mid EXCEPT !.val = r.val] ELSE op_mid
    /\ UNCHANGED <<bspVars, files, last, op_in>>

NextOver == OverGet \/ OverMake \/ OverSetOrder

SpecOver == InitOver /\ [][NextOver]_vars

(***************************************************************************)
(* Properties of the typed views and of save().                            *)
(***************************************************************************)
\* The step is a call of op.
Called(op) == last'.n = last.n + 1 /\ last'.op = op

\* C1: the first read of a view returns the decode of the primary lump's
\* bytes, caches it and empties the primary lump and every lump the view
\* declares; a read of a cached view returns the cached value, decodes
\* nothing and changes nothing; and a cached value stays as it is over every
\* call that is not an assignment or a save.
C1_ReadCachesAndClears ==
    [][/\ \A lump \in ViewLumps :
              (Called("get") /\ last'.lump = lump) =>
                  IF lump \in DOMAIN parsed_lumps
                  THEN /\ last'.ok
                       /\ last'.ret = parsed_lumps[lump]
                       /\ last'.reads = {}
                       /\ UNCHANGED instVars
                  ELSE last'.ok =>
                           /\ last'.ret = ReadFunc(Self, lump, lumps[lump].data).val
                           /\ lump \in last'.reads
                           /\ lump \in DOMAIN parsed_lumps'
                           /\ parsed_lumps'[lump] = last'.ret
                           /\ \A l \in Range(to_clear(lump)) : lumps'[l].data = <<>>
       /\ (Called("get") \/ Called("packfile") \/ Called("read")) =>
              \A l \in DOMAIN parsed_lumps :
                  l \in DOMAIN parsed_lumps' /\ parsed_lumps'[l] = parsed_lumps[l]]_vars

\* C1 witness: the textures view of the file is read again and comes from
\* the cache, the string data and the string table being empty.
C1_Witness ==
    /\ last.op = "get" /\ last.lump = TEXDATA_STRING_DATA /\ last.ok
    /\ last.reads = {}
    /\ last.ret = <<<<97>>, <<66>>>>
    /\ lumps[TEXDATA_STRING_DATA].data = <<>>
    /\ lumps[TEXDATA_STRING_TABLE].data = <<>>

\* C2: an assignment the validator rejects raises and changes nothing (the
\* pakfile view rejects exactly the archives that are not over a BytesIO);
\* an accepted assignment empties the primary lump and every lump the view
\* declares, and the next read returns the assigned value.
C2_SetValidatesFirst ==
    [][\A lump \in ViewLumps :
          (Called("set") /\ last'.lump = lump) =>
              /\ last'.ok <=> ~(lump = PAKFILE /\ last'.ret.fp # "BytesIO")
              /\ ~last'.ok => UNCHANGED instVars
              /\ last'.ok =>
                     /\ \A l \in Range(to_clear(lump)) : lumps'[l].data = <<>>
                     /\ DescriptorGet(Self', lump).ok
                     /\ DescriptorGet(Self', lump).val = last'.ret]_vars

\* C2 witness: an archive over a file has been assigned to the pakfile view
\* and was rejected.
C2_Witness ==
    /\ last.op = "set" /\ last.lump = PAKFILE /\ ~last.ok
    /\ last.ret.fp = "file"

\* C3: no view holds a cached value while its primary lump or a lump it
\* declares holds bytes.
C3_NeverRawAndCached ==
    \A lump \in DOMAIN parsed_lumps :
        \A l \in Range(to_clear(lump)) : lumps[l].data = <<>>

\* C4: save() returns, and no view is cached after it.
C4_SaveReencodesAll ==
    [][Called("save") => (last'.ok /\ DOMAIN parsed_lumps' = {})]_vars

\* The lumps of the views in the set: their primary lumps and the lumps they
\* declare.
LumpsOf(views_) == UNION {Range(to_clear(v)) : v \in views_}

\* C5 as stated: save() leaves every lump that is not of a view materialized
\* before it as it was, and the map revision and the game lumps.
C5_SaveFrame ==
    [][Called("save") =>
          /\ \A l \in BSP_LUMPS \ LumpsOf(DOMAIN parsed_lumps) : lumps'[l] = lumps[l]
          /\ map_revision' = map_revision
          /\ game_lumps' = game_lumps]_vars

\* C5 amended: save() leaves every lump that is not of a view materialized
\* before it or decoded during it as it was, and the map revision and the
\* game lumps; the version and the ident of every lump stay.
C5_SaveFrameAmended ==
    [][Called("save") =>
          /\ \A l \in BSP_LUMPS \ LumpsOf((DOMAIN parsed_lumps) \cup last'.reads) :
                 lumps'[l] = lumps[l]
          /\ \A l \in BSP_LUMPS :
                 lumps'[l].version = lumps[l].version /\ lumps'[l].ident = lumps[l].ident
          /\ map_revision' = map_revision
          /\ game_lumps' = game_lumps]_vars

\* C5 witness: a save has decoded the textures view to encode texinfo, and
\* has written the string data anew.
C5_Witness ==
    /\ last.op = "save" /\ last.ok
    /\ TEXDATA_STRING_DATA \in last.reads
    /\ lumps[TEXDATA_STRING_DATA].data = <<97, 0>>

\* The file of the last save, read by a new instance.
Reloaded == ParseFile(files[last.path], VERSION_NONE)

\* C6: the file a save has written reads as the instance: the version, the
\* map revision, every lump but the game lump, and the game lumps in their
\* order.
C6_ReadOfSave ==
    (last.op \in {"save", "replace_lump"} /\ last.ok) =>
        /\ Reloaded.ok
        /\ Reloaded.version = version
        /\ Reloaded.map_revision = map_revision
        /\ \A l \in BSP_LUMPS \ {GAME_LUMP} : Reloaded.lumps[l] = lumps[l]
        /\ Reloaded.game_lumps = game_lumps

\* C6 witness: an instance with game lumps has been saved after two other
\* calls.
C6_Witness ==
    /\ last.op = "save" /\ last.ok /\ last.n = 3
    /\ Len(game_lumps) = 2
    /\ Reloaded.game_lumps = game_lumps

\* The directory entry of a lump in the file f: its offset and its length.
DirOffset(f, l) == f[HEADER_1_CELLS + HEADER_LUMP_CELLS * l + 1]

DirLength(f, l) == f[HEADER_1_CELLS + HEADER_LUMP_CELLS * l + 2]

\* C7: in the file of a save the payloads follow the headers without a gap
\* or an overlap, each lump's payload being there once; the payload of the
\* pakfile lump starts where every other payload, the game lumps included,
\* has ended, and ends the file.
C7_PakfileLast ==
    (last.op \in {"save", "replace_lump"} /\ last.ok) =>
        /\ \A l \in BSP_LUMPS \ {PAKFILE} :
               DirOffset(files[last.path], l) + DirLength(files[last.path], l)
                   <= DirOffset(files[last.path], PAKFILE)
        /\ \A i \in 1..Len(Reloaded.game_lumps) :
               GameDataStart(game_lumps, DirOffset(files[last.path], GAME_LUMP), i)
                       + Len(game_lumps[i].data)
                   <= DirOffset(files[last.path], PAKFILE)
        /\ DirOffset(files[last.path], PAKFILE) + DirLength(files[last.path], PAKFILE)
               = Len(files[last.path])
        /\ \A l \in BSP_LUMPS \ {GAME_LUMP} :
               ReadAt(files[last.path], DirOffset(files[last.path], l),
                      DirLength(files[last.path], l)) = lumps[l].data
        /\ Len(Flatten([i \in 1..LUMP_COUNT |->
                           ReadAt(files[last.path], DirOffset(files[last.path], i - 1),
                                  DirLength(files[last.path], i - 1))]))
               = Len(files[last.path]) - (DIR_END + 1)

\* C7 witness: a file has been saved whose pakfile lump and whose later
\* lumps hold bytes.
C7_Witness ==
    /\ last.op = "save" /\ last.ok
    /\ lumps[PAKFILE].data # <<>>
    /\ lumps[CUBEMAPS].data # <<>>
    /\ DirOffset(files[last.path], CUBEMAPS) < DirOffset(files[last.path], PAKFILE)

(***************************************************************************)
(* Properties of the codecs.                                               *)
(***************************************************************************)
\* The version of the static prop lump of the instance.
SprpVersion == game_lumps[GameLumpIndex(game_lumps, STR_sprp)].version

\* The two props agree on every field that is on the wire at the version:
\* "v5+ allows fade_scale, v6 and v7 allow min/max DXLevel, v8+ allows
\* min/max GPU and CPU levels, v7+ allows model tinting and renderfx, v9+
\* allows disabling on XBox 360, v10+ adds an expanded flags section, v11+
\* adds uniform scaling and removes XBox disabling".
WireEqual(p, q, v) ==
    /\ p.model = q.model
    /\ p.origin = q.origin
    /\ p.angles = q.angles
    /\ p.visleafs = q.visleafs
    /\ p.solidity = q.solidity
    /\ value_prim(p.flags) = value_prim(q.flags)
    /\ p.skin = q.skin
    /\ p.min_fade = q.min_fade
    /\ p.max_fade = q.max_fade
    /\ p.lighting = q.lighting
    /\ v >= 5 => p.fade_scale = q.fade_scale
    /\ v \in {6, 7} =>
           p.min_dx_level = q.min_dx_level /\ p.max_dx_level = q.max_dx_level
    /\ v >= 8 =>
           /\ p.min_cpu_level = q.min_cpu_level /\ p.max_cpu_level = q.max_cpu_level
           /\ p.min_gpu_level = q.min_gpu_level /\ p.max_gpu_level = q.max_gpu_level
    /\ v >= 7 => p.tint = q.tint /\ p.renderfx = q.renderfx
    /\ v >= 10 => value_sec(p.flags) = value_sec(q.flags)
    /\ v >= 11 => p.scaling = q.scaling
    /\ v \in {9, 10} => p.disable_on_xbox = q.disable_on_xbox

\* C8: the props read from the lump that write_static_props wrote are the
\* props written, field for field, for what is on the wire at the version.
C8_PropsRoundTrip ==
    op_pc = "read" =>
        /\ op_out.ok
        /\ Len(op_out.val) = Len(op_in)
        /\ \A i \in 1..Len(op_in) : WireEqual(op_in[i], op_out.val[i], SprpVersion)

\* A NUL is found in the 128 bytes of the string data from the offset on.
NulWithin(data, off) ==
    \E k \in off..(off + 127) : k < Len(data) /\ data[k + 1] = 0

\* C9: the save of a list of names raises OverflowError exactly when a name
\* has 128 characters or more, and the names of a saved list are read back;
\* the string data of a file decodes exactly when every offset of the table
\* has a NUL within 128 bytes.
C9_NameLimit ==
    /\ op_pc = "saved" =>
           /\ last.ok <=> \A i \in 1..Len(op_in) : Len(op_in[i]) < 128
           /\ ~last.ok => last.err = "OverflowError"
    /\ op_pc = "got" => last.ok /\ last.ret = op_in
    /\ op_pc = "got_raw" =>
           (last.ok <=> \A i \in 1..Len(op_mid.table) :
                            NulWithin(op_mid.data, op_mid.table[i]))

\* C9 witness: a list with a name of 127 characters has been saved and read
\* back.
C9_Witness ==
    /\ op_pc = "got" /\ last.ok
    /\ \E i \in 1..Len(op_in) : Len(op_in[i]) = 127
    /\ last.ret = op_in

\* The instance a new BSP gives from the file.
FileInstance ==
    [lumps |-> ParseFile(files["bsp"], VERSION_NONE).lumps,
     parsed |-> [l \in {} |-> <<>>],
     game_lumps |-> ParseFile(files["bsp"], VERSION_NONE).game_lumps,
     map_revision |-> ParseFile(files["bsp"], VERSION_NONE).map_revision,
     version |-> ParseFile(files["bsp"], VERSION_NONE).version,
     out_comma_sep |-> "None", next_oid |-> 0]

\* The instance after the views have been read in the order given.
RECURSIVE ReadInOrder(_, _)
ReadInOrder(b, order) ==
    IF order = <<>> THEN b
    ELSE ReadInOrder(DescriptorGet(b, Head(order)).b, Tail(order))

\* The views of the file, read textures first, then texinfo, then overlays.
Reference ==
    ReadInOrder(FileInstance,
                <<TEXDATA_STRING_DATA, TEXINFO, OVERLAYS, PAKFILE, ENTITIES, CUBEMAPS>>).parsed

\* C10: whatever the order in which the views of a file were first read,
\* every view read holds the value it has when textures, texinfo and
\* overlays are read in that order; an overlay's texture is the object at
\* its index in the texinfo view; and two TexInfo hold the same TexData
\* object exactly when their records name the same TexData index.
C10_OrderIndependent ==
    /\ \A v \in DOMAIN parsed_lumps :
           v \in DOMAIN Reference /\ parsed_lumps[v] = Reference[v]
    /\ OVERLAYS \in DOMAIN parsed_lumps =>
           \A i \in 1..Len(parsed_lumps[OVERLAYS]) :
               /\ TEXINFO \in DOMAIN parsed_lumps
               /\ parsed_lumps[OVERLAYS][i].texture =
                      PyGet(parsed_lumps[TEXINFO],
                            Records(FileInstance.lumps[OVERLAYS].data, OVERLAY_CELLS)[i][2])
    /\ TEXINFO \in DOMAIN parsed_lumps =>
           \A i, j \in 1..Len(parsed_lumps[TEXINFO]) :
               /\ (Records(FileInstance.lumps[TEXINFO].data, TEXINFO_CELLS)[i][18]
                       = Records(FileInstance.lumps[TEXINFO].data, TEXINFO_CELLS)[j][18])
                      <=> (parsed_lumps[TEXINFO][i].info.oid
                               = parsed_lumps[TEXINFO][j].info.oid)
               /\ (parsed_lumps[TEXINFO][i].oid = parsed_lumps[TEXINFO][j].oid) => i = j

\* C10 witness: the overlays view was read first and the texinfo view after
\* it, from the cache; two of its TexInfo share their TexData.
C10_Witness ==
    /\ last.op = "get" /\ last.lump = TEXINFO /\ last.ok /\ last.reads = {}
    /\ last.n = 2
    /\ OVERLAYS \in DOMAIN parsed_lumps
    /\ Len(parsed_lumps[OVERLAYS]) = 1
    /\ parsed_lumps[TEXINFO][1].info.oid = parsed_lumps[TEXINFO][3].info.oid

HasNulLine(lines) == \E i \in 1..Len(lines) : lines[i] = <<CH_NUL>>

BeforeNul(lines) ==
    IF HasNulLine(lines)
    THEN SubSeq(lines, 1, (CHOOSE i \in 1..Len(lines) :
                              /\ lines[i] = <<CH_NUL>>
                              /\ \A j \in 1..(i - 1) : lines[j] # <<CH_NUL>>) - 1)
    ELSE lines

\* The entities open after the lines: the { lines less the } lines.
Depth(lines) ==
    Cardinality({i \in 1..Len(lines) : lines[i] = <<CH_OPEN>>})
        - Cardinality({i \in 1..Len(lines) : lines[i] = <<CH_CLOSE>>})

\* The line after the first k lines is misplaced: a { in an entity, a } or a
\* key/value line in none.
Misplaced(lines, k) ==
    IF lines[k + 1] = <<CH_OPEN>> THEN Depth(SubSeq(lines, 1, k)) >= 1
    ELSE Depth(SubSeq(lines, 1, k)) <= 0

\* The lines are not balanced: a line is misplaced, or an entity is open
\* where the lines end.
Unbalanced(lines) ==
    \/ \E k \in 0..(Len(lines) - 1) : Misplaced(lines, k)
    \/ Depth(lines) # 0

\* C12: the decode of lines that are not balanced fails and caches nothing;
\* and whenever the decode of a prefix of the lines has not failed, the
\* entities open after it are none or one.
C12_UnbalancedFails ==
    /\ (op_pc = "got" /\ Unbalanced(BeforeNul(op_in))) =>
           ~last.ok /\ ENTITIES \notin DOMAIN parsed_lumps
    /\ \A k \in 0..Len(BeforeNul(op_in)) :
           EntLoop(EntStart("None"), SubSeq(op_in, 1, k)).ok =>
               Depth(SubSeq(op_in, 1, k)) \in {0, 1}

\* C12 without the case of lines that end in an open entity with no NUL line.
C12_UnbalancedFailsButTruncated ==
    /\ (op_pc = "got" /\ Unbalanced(BeforeNul(op_in))
            /\ ~(~HasNulLine(op_in) /\ Depth(op_in) = 1
                     /\ \A k \in 0..(Len(op_in) - 1) : ~Misplaced(op_in, k))) =>
           ~last.ok /\ ENTITIES \notin DOMAIN parsed_lumps
    /\ \A k \in 0..Len(BeforeNul(op_in)) :
           EntLoop(EntStart("None"), SubSeq(op_in, 1, k)).ok =>
               Depth(SubSeq(op_in, 1, k)) \in {0, 1}

\* The places of the { lines and of the } lines, in order.
Places(lines, line) == {i \in 1..Len(lines) : lines[i] = line}

Nth(S, j) == CHOOSE i \in S : Cardinality({x \in S : x < i}) = j - 1

\* The entity the lines between the j-th { and the j-th } make.
Block(lines, j) ==
    EntLoop([EntStart("None") EXCEPT !.cur = "ent"],
            SubSeq(lines, Nth(Places(lines, <<CH_OPEN>>), j) + 1,
                   Nth(Places(lines, <<CH_CLOSE>>), j) - 1)).cur_ent

\* C13: the first entity closed is the world; a decode that returns has a
\* world of classname worldspawn if an entity was closed; the world is
\* vmf.spawn and not in the entity list; the entity list holds the other
\* closed entities, once each, in the order of their closing brackets.
C13_WorldFirst ==
    op_pc = "got" =>
        /\ (/\ Places(BeforeNul(op_in), <<CH_CLOSE>>) # {}
            /\ Places(BeforeNul(op_in), <<CH_OPEN>>) # {}
            /\ Nth(Places(BeforeNul(op_in), <<CH_OPEN>>), 1)
                   < Nth(Places(BeforeNul(op_in), <<CH_CLOSE>>), 1)
            /\ KeyValue(Block(BeforeNul(op_in), 1), STR_classname) # STR_worldspawn)
               => ~last.ok
        /\ last.ok =>
            /\ Places(BeforeNul(op_in), <<CH_CLOSE>>) # {} =>
                   /\ last.ret.spawn = Block(BeforeNul(op_in), 1)
                   /\ KeyValue(last.ret.spawn, STR_classname) = STR_worldspawn
            /\ Len(last.ret.entities)
                   = Max(Cardinality(Places(BeforeNul(op_in), <<CH_CLOSE>>)) - 1, 0)
            /\ \A j \in 1..Len(last.ret.entities) :
                   last.ret.entities[j] = Block(BeforeNul(op_in), j + 1)

\* Two entities that differ were closed after the world.
C13_Witness ==
    /\ op_pc = "got"
    /\ last.ok
    /\ Len(last.ret.entities) = 2
    /\ last.ret.entities[1] # last.ret.entities[2]

\* The values a line of the lumps may hold, and the keys.
LineValues == EntValues \cup {STR_worldspawn, <<120>>, <<97>>}

LineKeys == {<<107>>, STR_classname}

\* The entity being filled after a line is a connection record richer, or a
\* plain attribute richer, than before it.
AsRecord(st, st2, key, v) ==
    /\ st2.ok
    /\ st2.cur_ent.keys = st.cur_ent.keys
    /\ st2.cur_ent.outputs = Append(st.cur_ent.outputs, OutputParse(key, v).val)

AsAttribute(st, st2, key, v) ==
    /\ st2.ok
    /\ st2.cur_ent = SetKey(st.cur_ent, key, v)

\* The rule with sep for the separator byte: a value with the byte is a
\* record; else a value with four commas is a record if it parses and an
\* attribute if not; else it is an attribute.
Classified(sep, st, st2, key, v) ==
    IF Count(v, sep) > 0 THEN OutputParse(key, v).ok => AsRecord(st, st2, key, v)
    ELSE IF Count(v, CH_COMMA) = 4
    THEN IF OutputParse(key, v).ok THEN AsRecord(st, st2, key, v)
         ELSE AsAttribute(st, st2, key, v)
    ELSE AsAttribute(st, st2, key, v)

ClassifiedBy(sep) ==
    op_pc = "got" =>
        \A i \in 1..Len(BeforeNul(op_in)) : \A key \in LineKeys : \A v \in LineValues :
            (/\ op_in[i] = KV(key, v)
             /\ EntLoop(EntStart("None"), SubSeq(op_in, 1, i - 1)).ok
             /\ EntLoop(EntStart("None"), SubSeq(op_in, 1, i - 1)).cur # "None")
            => Classified(sep, EntLoop(EntStart("None"), SubSeq(op_in, 1, i - 1)),
                          EntLoop(EntStart("None"), SubSeq(op_in, 1, i)), key, v)

\* C14: every key/value line in an entity is classified by the rule with the
\* separator byte 0x1D.
C14_Classified == ClassifiedBy(OUTPUT_SEP)

\* C14 with the byte 27 that line 815 tests for.
C14_ClassifiedByEscape == ClassifiedBy(VALUE_SEP_TEST)

\* The VMF after write_ent_data(vmf, True), which stores the style in every
\* record it writes.
WithCommas(ent) ==
    [ent EXCEPT !.outputs = [i \in 1..Len(ent.outputs) |->
                                [ent.outputs[i] EXCEPT !.comma_sep = TRUE]]]

WrittenVMF(vmf) ==
    [vmf EXCEPT !.spawn = WithCommas(@),
                !.entities = [i \in 1..Len(vmf.entities) |-> WithCommas(vmf.entities[i])]]

\* The bytes list the world first and end with the NUL line.
WorldFirst(vmf, data) ==
    /\ Len(data) > 0
    /\ data[Len(data)] = CH_NUL
    /\ SplitLines(data)[1] = <<CH_OPEN>>
    /\ SplitLines(data)[2] = KV(STR_classname, STR_worldspawn)

PlainValue(v) ==
    /\ Count(v, VALUE_SEP_TEST) = 0
    /\ ~(Count(v, CH_COMMA) = 4 /\ OutputParse(<<107>>, v).ok)

\* A record that comes back as it was: no comma and no 0x1D in its fields.
PlainField(f) == Count(f, CH_COMMA) = 0 /\ Count(f, OUTPUT_SEP) = 0

PlainEntity(ent) ==
    /\ \A i \in 1..Len(ent.keys) : PlainValue(ent.keys[i][2])
    /\ \A i \in 1..Len(ent.outputs) :
           /\ PlainField(ent.outputs[i].target)
           /\ PlainField(ent.outputs[i].input)
           /\ PlainField(ent.outputs[i].params)

PlainVMF(vmf) ==
    /\ PlainEntity(vmf.spawn)
    /\ \A i \in 1..Len(vmf.entities) : PlainEntity(vmf.entities[i])

SplitOf(face_ro, count, order) ==
    /\ count \in 0..(2^14 - 1)
    /\ order \in 0..3
    /\ face_ro = order * 2^14 + count

\* The Overlay objects there are: those of the view, and the one made.
OverlaysAlive ==
    (IF OVERLAYS \in DOMAIN parsed_lumps
     THEN {parsed_lumps[OVERLAYS][i] : i \in 1..Len(parsed_lumps[OVERLAYS])} ELSE {})
        \cup (IF op_pc \in {"made", "set"} /\ op_mid.ok THEN {op_mid.val} ELSE {})
        \cup (IF op_pc = "set" /\ op_out.ok THEN {op_out.val} ELSE {})

\* C16: a decode that returns gives, record by record, the low 14 bits as the
\* face count, the bits above as the render order and the first face-count
\* faces of the 64; a record with more than 64 faces fails the decode; every
\* Overlay there is has a render order of 0, 1 or 2, and one made or set with
\* another is rejected.
C16_Overlays ==
    /\ op_pc = "got" =>
           /\ (\E i \in 1..Len(op_in) : \E c \in (OVERLAY_FACES + 1)..(2^14 - 1) :
                   \E o \in 0..3 : SplitOf(op_in[i][3], c, o)) => ~last.ok
           /\ last.ok =>
                  /\ Len(last.ret) = Len(op_in)
                  /\ \A i \in 1..Len(op_in) :
                         /\ SplitOf(op_in[i][3], last.ret[i].face_count,
                                    last.ret[i].render_order)
                         /\ last.ret[i].faces
                                = [k \in 1..last.ret[i].face_count |-> op_in[i][3 + k]]
    /\ \A over \in OverlaysAlive : over.render_order \in {0, 1, 2}
    /\ op_pc \in {"made", "set"} => (op_mid.ok <=> op_mid.asked \in {0, 1, 2})
    /\ op_pc = "set" => (op_out.ok <=> op_out.asked \in {0, 1, 2})

\* Two overlays were decoded, one of render order 2 and 64 faces, one of
\* render order 1 and one face.
C16_Witness ==
    /\ op_pc = "got"
    /\ last.ok
    /\ Len(last.ret) = 2
    /\ last.ret[1].render_order = 2 /\ last.ret[1].face_count = OVERLAY_FACES
    /\ last.ret[2].render_order = 1 /\ last.ret[2].face_count = 1

(***************************************************************************)
(* Properties of vis_tree().                                               *)
(***************************************************************************)
\* The child of a reference c of the lump is the leaf numbered -1 - c of the
\* returned leafs, or the node numbered c of the returned nodes.
Resolves(child, c) ==
    IF c < 0 THEN child.kind = "leaf" /\ child.ind + c = -1
    ELSE child.kind = "node" /\ child.ind = c

\* C17: in what vis_tree() returns, the children of every node are those its
\* two references resolve to by sign; the root is the first node; the id of
\* a leaf is its index; and the node with children (-1, -2) over two leafs
\* has leaf 0 on its negative side and leaf 1 on its positive side.
C17_LinkedBySign ==
    (op_pc = "done" /\ op_out.ok) =>
        /\ Len(op_out.val.nodes) = Len(op_in.nodes)
        /\ \A i \in 1..Len(op_in.nodes) :
               /\ Resolves(op_out.val.nodes[i].child_neg, op_in.nodes[i][2])
               /\ Resolves(op_out.val.nodes[i].child_pos, op_in.nodes[i][3])
        /\ op_out.val.root = [kind |-> "node", ind |-> 0]
        /\ \A k \in 1..Len(op_out.val.leafs) : op_out.val.leafs[k].id = k - 1
        /\ op_in.nodes = <<<<0, -1, -2>>>> =>
               /\ op_out.val.nodes[1].child_neg = [kind |-> "leaf", ind |-> 0]
               /\ op_out.val.nodes[1].child_pos = [kind |-> "leaf", ind |-> 1]
               /\ op_out.val.leafs[1].id = 0 /\ op_out.val.leafs[2].id = 1

\* vis_tree() has returned the tree of one node over two leafs.
C17_Witness ==
    /\ op_pc = "done"
    /\ op_out.ok
    /\ op_in.nodes = <<<<0, -1, -2>>>>
    /\ Len(op_out.val.leafs) = 2

\* The slots <<node, side>> of the nodes that can be reached from the root,
\* and the child in a slot.
RECURSIVE ReachedIn(_, _, _)
ReachedIn(tree, seen, k) ==
    IF k = 0 THEN seen
    ELSE ReachedIn(tree,
             seen \cup {c.ind : c \in {ch \in UNION {{tree.nodes[n + 1].child_neg,
                                                      tree.nodes[n + 1].child_pos} : n \in seen} :
                                          ch.kind = "node"}},
             k - 1)

Reached(tree, from) == ReachedIn(tree, from, Len(tree.nodes))

ChildNodes(tree, n) ==
    {c.ind : c \in {ch \in {tree.nodes[n + 1].child_neg, tree.nodes[n + 1].child_pos} :
                       ch.kind = "node"}}

SlotChild(tree, slot) ==
    IF slot[2] = "neg" THEN tree.nodes[slot[1] + 1].child_neg
    ELSE tree.nodes[slot[1] + 1].child_pos

\* C18: in what vis_tree() returns, no node reached from the root is reached
\* from its own children, and no two slots of the nodes reached hold the
\* same child.
C18_Tree ==
    (op_pc = "done" /\ op_out.ok) =>
        /\ \A n \in Reached(op_out.val, {0}) :
               n \notin Reached(op_out.val, ChildNodes(op_out.val, n))
        /\ \A s, t \in Reached(op_out.val, {0}) \X {"neg", "pos"} :
               s # t => SlotChild(op_out.val, s) # SlotChild(op_out.val, t)

(***************************************************************************)
(* Properties of read().                                                   *)
(***************************************************************************)
\* What the file says of itself, and what the caller asked for.
FileMagic == files["bsp"][1]

FileVersion == files["bsp"][2]

Asked == op_in

ReadFailed == ~last.ok /\ DOMAIN lumps = {}

\* C19: read() fails, and loads nothing, on a file whose magic is not VBSP,
\* or whose version is none of VERSIONS, or is not the version asked for.
C19_ReadRejects ==
    (/\ op_pc = "read"
     /\ \/ FileMagic # BSP_MAGIC
        \/ FileVersion \notin VERSIONS
        \/ Asked # VERSION_NONE /\ FileVersion # Asked)
    => ReadFailed

\* C19, amended: read() fails, and loads nothing, on a file whose magic is not
\* VBSP or whose version is not the version asked for; with no version asked
\* for, a file of the magic VBSP is loaded whatever its version, which the
\* container then has as its own.
C19_ReadRejectsAsked ==
    op_pc = "read" =>
        /\ (\/ FileMagic # BSP_MAGIC
            \/ Asked # VERSION_NONE /\ FileVersion # Asked) => ReadFailed
        /\ (FileMagic = BSP_MAGIC /\ Asked = VERSION_NONE) =>
               /\ last.ok
               /\ version = FileVersion
               /\ DOMAIN lumps = BSP_LUMPS

\* A file of the magic VBSP was refused for its version, which is one of
\* VERSIONS but not the one asked for.
C19_Witness ==
    /\ op_pc = "read"
    /\ FileMagic = BSP_MAGIC
    /\ FileVersion \in VERSIONS
    /\ Asked \in VERSIONS
    /\ ReadFailed

(***************************************************************************)
(* Properties of the material names.                                       *)
(***************************************************************************)
\* The material names of a list of TexInfo.
Materials(texinfos) == [i \in 1..Len(texinfos) |-> texinfos[i].info.mat]

\* The texinfo view of a new instance on the cells f of a file.
TexInfoOfFile(f) ==
    DescriptorGet([lumps |-> ParseFile(f, VERSION_NONE).lumps,
                   parsed |-> [l \in {} |-> <<>>],
                   game_lumps |-> ParseFile(f, VERSION_NONE).game_lumps,
                   map_revision |-> ParseFile(f, VERSION_NONE).map_revision,
                   version |-> ParseFile(f, VERSION_NONE).version,
                   out_comma_sep |-> "None", next_oid |-> 0], TEXINFO)

\* C20: a save() with the texinfo view cached returns, and the texinfo view
\* of the file it wrote has, TexInfo by TexInfo, the material names the
\* cached view had, letter for letter.
C20_CasePreserved ==
    [][(Called("save") /\ TEXINFO \in DOMAIN parsed_lumps) =>
           /\ last'.ok
           /\ TexInfoOfFile(files'[last'.path]).ok
           /\ Materials(TexInfoOfFile(files'[last'.path]).val)
                  = Materials(parsed_lumps[TEXINFO])]_vars

\* C20 for the views that save() can encode: a save() with a texinfo view of
\* some TexInfo cached fails with TypeError and writes no file.
C20_NoEncode ==
    [][(Called("save") /\ TEXINFO \in DOMAIN parsed_lumps
            /\ parsed_lumps[TEXINFO] # <<>>) =>
           /\ ~last'.ok
           /\ last'.err \in {"TypeError", "ValueError", "NotImplementedError", "OverflowError"}
           /\ files' = files]_vars

(***************************************************************************)
(* Properties of the static prop layouts.                                  *)
(***************************************************************************)
\* The byte at which the i-th field of a layout starts.
RECURSIVE FieldOffset(_, _)
FieldOffset(layout, i) ==
    IF i = 1 THEN 0 ELSE FieldOffset(layout, i - 1) + FmtWidth(layout[i - 1].fmt)

\* The fields of a layout that hold a value of the prop, each with the byte
\* it starts at and its width.
Placed(layout) ==
    {<<layout[i].field, FieldOffset(layout, i), FmtWidth(layout[i].fmt)>> :
        i \in {k \in 1..Len(layout) : layout[k].field \notin {"pad", "unknown_1"}}}

\* The bytes of a prop in a layout.
LayoutWidth(layout) == FieldOffset(layout, Len(layout)) + FmtWidth(layout[Len(layout)].fmt)

\* C21: at the version of the lump that write_static_props wrote, every field
\* is read from the bytes it was written at, and a prop takes as many bytes
\* read as written.
C21_SameLayout ==
    op_pc \in {"written", "read"} =>
        /\ Placed(WriteLayout(SprpVersion)) = Placed(ReadLayout(SprpVersion))
        /\ LayoutWidth(WriteLayout(SprpVersion)) = LayoutWidth(ReadLayout(SprpVersion))

\* C21 for the versions 4 to 10; at version 11 the props are as wide read as
\* written.
C21_SameLayoutBelow11 ==
    op_pc \in {"written", "read"} =>
        /\ SprpVersion <= 10 =>
               Placed(WriteLayout(SprpVersion)) = Placed(ReadLayout(SprpVersion))
        /\ LayoutWidth(WriteLayout(SprpVersion)) = LayoutWidth(ReadLayout(SprpVersion))

(***************************************************************************)
(* Properties of the indexes _lmp_write_texinfo writes.                    *)
(***************************************************************************)
\* str.casefold() of an ASCII name.
Casefold(name) ==
    [k \in 1..Len(name) |-> IF name[k] \in 65..90 THEN name[k] + 32 ELSE name[k]]

\* The value of a TexData: what eq=True compares.
TexDataValue(td) ==
    [mat |-> td.mat, reflectivity |-> td.reflectivity, width |-> td.width,
     height |-> td.height]

\* The TexData record of the lump is that of the value, under the names.
RecordOfValue(rec, value, names) ==
    /\ <<rec[1], rec[2], rec[3]>> = value.reflectivity
    /\ rec[5] = value.width /\ rec[6] = value.height
    /\ rec[7] = value.width /\ rec[8] = value.height
    /\ rec[4] \in 0..(Len(names) - 1)
    /\ Casefold(names[rec[4] + 1]) = Casefold(value.mat)

\* The names of the textures view of the file.
FileNames ==
    IF DescriptorGet(FileInstance, TEXDATA_STRING_DATA).ok
    THEN DescriptorGet(FileInstance, TEXDATA_STRING_DATA).val ELSE <<>>

\* C22: an encode of a list of TexInfo returns; it has written one TexData
\* record for each TexData value of the list; the index written for a TexInfo
\* is that of the record of its TexData; and no name the encode has appended
\* to the textures view is equal, case-folded, to another name of the view.
C22_IndicesReused ==
    op_pc = "once" =>
        /\ op_mid.ok
        /\ Len(op_mid.texdata) = TEXDATA_CELLS *
               Cardinality({TexDataValue(op_in[i].info) : i \in 1..Len(op_in)})
        /\ Len(op_mid.val) = TEXINFO_CELLS * Len(op_in)
        /\ \A i \in 1..Len(op_in) :
               /\ Records(op_mid.val, TEXINFO_CELLS)[i][18]
                      \in 0..(Len(op_mid.texdata) \div TEXDATA_CELLS - 1)
               /\ RecordOfValue(
                      Records(op_mid.texdata, TEXDATA_CELLS)
                          [Records(op_mid.val, TEXINFO_CELLS)[i][18] + 1],
                      TexDataValue(op_in[i].info), op_mid.names)
        /\ \A j \in (Len(FileNames) + 1)..Len(op_mid.names) :
               \A k \in 1..Len(op_mid.names) :
                   Casefold(op_mid.names[j]) = Casefold(op_mid.names[k]) => j = k

\* C22 as the code has it: an encode returns for the empty list alone, and
\* then writes no record.
C22_OnlyEmpty ==
    op_pc = "once" =>
        /\ op_mid.ok <=> op_in = <<>>
        /\ (op_in # <<>> /\ DescriptorGet(FileInstance, TEXDATA_STRING_DATA).ok) =>
               op_mid.err = "TypeError"
        /\ op_mid.ok => op_mid.texdata = <<>> /\ op_mid.val = <<>>

(***************************************************************************)
(* The texture-name codec as a pair of functions: a name list is encoded   *)
(* by _lmp_write_textures and the table and blob it gives are decoded by   *)
(* _lmp_read_textures.  The names are short str values over 'a', 'b' and   *)
(* the character U+0000, which str.encode('ascii') takes like any other.   *)
(***************************************************************************)
CodecNames ==
    {<<>>, <<97>>, <<98>>, <<97, 98>>, <<98, 97>>, <<97, 97>>,
     <<97, 0, 98>>, <<0>>}

CodecLists == UNION {[1..k -> CodecNames] : k \in 0..(MaxNames + 1)}

InitCodec ==
    /\ Constructed(FixtureSparse)
    /\ op_pc = "idle"
    /\ op_in \in CodecLists
    /\ op_mid = <<>>
    /\ op_out = <<>>

\* bsp._lmp_write_textures(textures)
CodecEncode ==
    /\ op_pc = "idle"
    /\ op_pc' = "encoded"
    /\ op_mid' = EncodeTextures(op_in)
    /\ UNCHANGED <<bspVars, files, last, op_in, op_out>>

\* bsp._lmp_read_textures(tex_data), over the table just written
CodecDecode ==
    /\ op_pc = "encoded"
    /\ op_mid.ok
    /\ op_pc' = "decoded"
    /\ op_out' = DecodeTextures(op_mid.table, op_mid.data)
    /\ UNCHANGED <<bspVars, files, last, op_in, op_mid>>

NextCodec == CodecEncode \/ CodecDecode

SpecCodec == InitCodec /\ [][NextCodec]_vars

(***************************************************************************)
(* Properties of the texture-name codec.                                   *)
(***************************************************************************)
\* sub lies in data at the 0-based position off.
OccursAt(data, sub, off) ==
    /\ off >= 0 /\ off + Len(sub) <= Len(data)
    /\ SubSeq(data, off + 1, off + Len(sub)) = sub

Occurs(data, sub) == \E off \in 0..Len(data) : OccursAt(data, sub, off)

\* The list with each name once, at its first place.
RECURSIVE FirstOnly(_)
FirstOnly(names) ==
    IF names = <<>> THEN <<>>
    ELSE LET n    == Len(names)
             rest == FirstOnly(SubSeq(names, 1, n - 1))
         IN  IF \E k \in 1..Len(rest) : rest[k] = names[n]
             THEN rest ELSE Append(rest, names[n])

HasNul(name) == \E k \in 1..Len(name) : name[k] = 0

\* Every offset of the table points at the name and its NUL; a name whose
\* bytes are in the blob already leaves the blob as it is; the blob is that
\* of the list with each name once.
Deduplicated(names, enc) ==
    /\ enc.ok
    /\ Len(enc.table) = Len(names)
    /\ \A i \in 1..Len(names) :
           OccursAt(enc.data, names[i] \o <<0>>, enc.table[i])
    /\ \A i \in 1..Len(names) :
           LET before == EncodeTextures(SubSeq(names, 1, i - 1))
               after  == EncodeTextures(SubSeq(names, 1, i))
           IN  Occurs(before.data, names[i] \o <<0>>)
                   => /\ after.data = before.data
                      /\ OccursAt(before.data, names[i] \o <<0>>, after.table[i])
    /\ enc.data = EncodeTextures(FirstOnly(names)).data

\* C23 (as stated): the table offsets of the encoded name list point at the
\* NUL-terminated names, a name already in the blob does not grow it, a list
\* with a repeated name gives the blob of the list with the name once, and
\* decoding the table and the blob gives the list back.
C23_Deduplicated ==
    /\ op_pc \in {"encoded", "decoded"} => Deduplicated(op_in, op_mid)
    /\ op_pc = "decoded" => op_out.ok /\ op_out.val = op_in

\* C23 (amended): the same, the decode giving the list back where no name
\* holds the character U+0000; a name that holds one comes back cut at it.
C23_DeduplicatedNoNul ==
    /\ op_pc \in {"encoded", "decoded"} => Deduplicated(op_in, op_mid)
    /\ op_pc = "decoded" =>
           /\ op_out.ok /\ Len(op_out.val) = Len(op_in)
           /\ \A i \in 1..Len(op_in) :
                  /\ ~HasNul(op_in[i]) => op_out.val[i] = op_in[i]
                  /\ HasNul(op_in[i]) =>
                         /\ op_out.val[i] # op_in[i]
                         /\ ~HasNul(op_out.val[i])
                         /\ OccursAt(op_in[i], op_out.val[i] \o <<0>>, 0)

\* C23 witness: a list with a repeated name, and a name that ends another
\* one, has been encoded into a blob shorter than the names and decoded.
C23_Witness ==
    /\ op_pc = "decoded"
    /\ op_in = <<<<98, 97>>, <<97>>, <<98, 97>>>>
    /\ op_mid.data = <<98, 97, 0>>
    /\ op_mid.table = <<0, 1, 0>>
    /\ op_out.val = op_in

(***************************************************************************)
(* Properties of the separator style _lmp_read_ents remembers.             *)
(***************************************************************************)
\* The loop after the first i lines of the lump.
EntAfter(i) == EntLoop(EntStart("None"), SubSeq(op_in, 1, i))

\* Line i is decoded as a connection record: the entity being filled has one
\* output more after it.
RecordLine(i) ==
    /\ EntAfter(i).ok
    /\ EntAfter(i - 1).cur # "None"
    /\ EntAfter(i).cur = EntAfter(i - 1).cur
    /\ Len(EntAfter(i).cur_ent.outputs) = Len(EntAfter(i - 1).cur_ent.outputs) + 1

\* Line i falls back to a plain attribute: four commas that are no record.
FallbackLine(i) ==
    /\ EntAfter(i).ok
    /\ EntAfter(i - 1).cur # "None"
    /\ \E key \in LineKeys : op_in[i] = KV(key, VAL_FOUR)
    /\ EntAfter(i).cur_ent.outputs = EntAfter(i - 1).cur_ent.outputs

\* The style of the record line i stores.
RecordStyle(i) ==
    LET outs == EntAfter(i).cur_ent.outputs
    IN  IF outs[Len(outs)].comma_sep THEN "True" ELSE "False"

\* The style the branch of lines 815-826 taken by line i stores.
BranchStyle(i) ==
    IF \E k \in 1..Len(op_in[i]) : op_in[i][k] = VALUE_SEP_TEST THEN "False" ELSE "True"

RecordLines == {i \in 1..Len(BeforeNul(op_in)) : RecordLine(i)}

StoringLines == {i \in 1..Len(BeforeNul(op_in)) : RecordLine(i) \/ FallbackLine(i)}

\* C24: after a decode, out_comma_sep is the style of the first line decoded
\* as a connection record, and is not set if no line is; a line that falls
\* back to a plain attribute does not set it.
C24_SepOfFirstRecord ==
    (op_pc = "got" /\ last.ok) =>
        IF RecordLines = {} THEN out_comma_sep = "None"
        ELSE \E i \in RecordLines :
                 /\ \A j \in RecordLines : i <= j
                 /\ out_comma_sep = RecordStyle(i)

\* What lines 815-826 do: the style is that of the branch taken by the first
\* line that holds the byte 27 or four commas, a record or not.
C24_SepOfFirstBranch ==
    (op_pc = "got" /\ last.ok) =>
        IF StoringLines = {} THEN out_comma_sep = "None"
        ELSE \E i \in StoringLines :
                 /\ \A j \in StoringLines : i <= j
                 /\ out_comma_sep = BranchStyle(i)

(***************************************************************************)
(* Properties of the deferred writes of save().                            *)
(***************************************************************************)
\* The cell at the 0-based position pos of the file f.
CellAt(f, pos) == f[pos + 1]

\* The position of the entry of the i-th game lump in the file f, and of the
\* offset and the length in it.
GameEntry(f, n, i) == DirOffset(f, GAME_LUMP) + 1 + GAME_ST_CELLS * (i - 1)

GameOffset(f, n, i) == CellAt(f, GameEntry(f, n, i) + 6)

GameLength(f, n, i) == CellAt(f, GameEntry(f, n, i) + 7)

\* The keys reserved, and fulfilled, in the stream w.
ReservedAs(w, key) == {i \in 1..Len(w.loc) : w.loc[i].key = key}

FulfilledAs(w, key) == {i \in 1..Len(w.data) : w.data[i].key = key}

\* A placeholder of w lies over the cell i.
Reserved(w, i) ==
    \E k \in 1..Len(w.loc) : w.loc[k].pos < i /\ i <= w.loc[k].pos + w.loc[k].width

\* Every key is reserved once and fulfilled once: a key per slot, of two
\* cells in the slot's header, and a key per game lump, of one cell.
ReservedOnce(w, gl) ==
    /\ Len(w.loc) = LUMP_COUNT + Len(gl)
    /\ \A l \in BSP_LUMPS :
           /\ Cardinality(ReservedAs(w, LumpKey(l))) = 1
           /\ Cardinality(FulfilledAs(w, LumpKey(l))) = 1
           /\ \A k \in ReservedAs(w, LumpKey(l)) :
                  /\ w.loc[k].pos = HEADER_1_CELLS + HEADER_LUMP_CELLS * l
                  /\ w.loc[k].width = 2
    /\ \A i \in 1..Len(gl) :
           /\ Cardinality(ReservedAs(w, GameKey(gl[i].id))) = 1
           /\ Cardinality(FulfilledAs(w, GameKey(gl[i].id))) = 1
    /\ Len(w.data) = Len(w.loc)

\* The directory of the file f: the payloads lie one after the other in the
\* write order from the end of the headers, each entry holding where its
\* payload starts and how long it is.
DirectoryOf(f, lmps, gl) ==
    /\ DirOffset(f, LUMP_WRITE_ORDER[1]) = DIR_END + 1
    /\ \A k \in 1..(LUMP_COUNT - 1) :
           DirOffset(f, LUMP_WRITE_ORDER[k + 1])
               = DirOffset(f, LUMP_WRITE_ORDER[k]) + DirLength(f, LUMP_WRITE_ORDER[k])
    /\ DirOffset(f, LUMP_WRITE_ORDER[LUMP_COUNT])
           + DirLength(f, LUMP_WRITE_ORDER[LUMP_COUNT]) = Len(f)
    /\ \A l \in BSP_LUMPS \ {GAME_LUMP} :
           /\ DirLength(f, l) = Len(lmps[l].data)
           /\ ReadAt(f, DirOffset(f, l), DirLength(f, l)) = lmps[l].data

\* The game lump slot: its entry holds the start of the game lump directory
\* and the size up to the end of the last game lump; each game lump's entry
\* holds where its bytes start.
GameDirectoryOf(f, gl) ==
    /\ CellAt(f, DirOffset(f, GAME_LUMP)) = Len(gl)
    /\ \A i \in 1..Len(gl) :
           /\ GameLength(f, Len(gl), i) = Len(gl[i].data)
           /\ GameOffset(f, Len(gl), i) =
                  IF i = 1 THEN DirOffset(f, GAME_LUMP) + 1 + GAME_ST_CELLS * Len(gl)
                  ELSE GameOffset(f, Len(gl), i - 1) + GameLength(f, Len(gl), i - 1)
           /\ ReadAt(f, GameOffset(f, Len(gl), i), Len(gl[i].data)) = gl[i].data
    /\ DirLength(f, GAME_LUMP) =
           IF gl = <<>> THEN 1
           ELSE GameOffset(f, Len(gl), Len(gl)) + GameLength(f, Len(gl), Len(gl))
                    - DirOffset(f, GAME_LUMP)

\* The flush leaves every cell that is no placeholder as it was written.
FlushKeeps(w, f) ==
    /\ Len(f) = Len(w.cells)
    /\ \A i \in 1..Len(f) : ~Reserved(w, i) => f[i] = w.cells[i]

DeferredDone(w, f, lmps, gl) ==
    /\ ReservedOnce(w, gl)
    /\ DirectoryOf(f, lmps, gl)
    /\ GameDirectoryOf(f, gl)
    /\ FlushKeeps(w, f)

\* C25: in a save, a placeholder is reserved for the directory entry of each
\* of the 64 slots and for the offset of each game lump, each is fulfilled
\* once, and the file holds in each entry where the payload starts and its
\* length, the game lump slot's entry spanning the game lump directory and
\* the game lumps; no other cell is altered by the flush.
C25_DeferredDone ==
    (last.op \in {"save", "replace_lump"} /\ last.ok) =>
        DeferredDone(SaveStream(Self), files[last.path], lumps, game_lumps)

\* C25 witness: a file has been saved with two game lumps, the bytes of the
\* second starting where those of the first end.
C25_Witness ==
    /\ last.op = "replace_lump" /\ last.ok
    /\ Len(game_lumps) = 2
    /\ game_lumps[1].data # <<>>
    /\ GameOffset(files[last.path], 2, 2) = GameOffset(files[last.path], 2, 1) + 2
    /\ GameOffset(files[last.path], 2, 1) > DirOffset(files[last.path], GAME_LUMP)

(***************************************************************************)
(* Properties of the order of the rebuild.                                 *)
(***************************************************************************)
\* The textures view of a new instance on the cells f of a file.
NamesOfFile(f) ==
    DescriptorGet([lumps |-> ParseFile(f, VERSION_NONE).lumps,
                   parsed |-> [l \in {} |-> <<>>],
                   game_lumps |-> ParseFile(f, VERSION_NONE).game_lumps,
                   map_revision |-> ParseFile(f, VERSION_NONE).map_revision,
                   version |-> ParseFile(f, VERSION_NONE).version,
                   out_comma_sep |-> "None", next_oid |-> 0], TEXDATA_STRING_DATA)

\* The texture-name indexes of the TexData records in the cells f of a file.
NameIndexes(f) ==
    {ParseFile(f, VERSION_NONE).lumps[TEXDATA].data[TEXDATA_CELLS * (k - 1) + 4] :
         k \in 1..(Len(ParseFile(f, VERSION_NONE).lumps[TEXDATA].data) \div TEXDATA_CELLS)}

\* The name is one of the names, whatever the case of its letters.
NamedIn(names, name) == \E k \in 1..Len(names) : Casefold(names[k]) = Casefold(name)

\* C26: a save() with the texinfo view cached encodes the texture names
\* after texinfo: the texture-name table of the file it writes holds the
\* name of every TexData of the view, those the texinfo encode appended
\* included, and every name index of a TexData record of the file is an
\* index into that table.
C26_NamesSaved ==
    [][(Called("save") /\ TEXINFO \in DOMAIN parsed_lumps) =>
           /\ NamesOfFile(files'[last'.path]).ok
           /\ \A i \in 1..Len(parsed_lumps[TEXINFO]) :
                  NamedIn(NamesOfFile(files'[last'.path]).val,
                          parsed_lumps[TEXINFO][i].info.mat)
           /\ \A ind \in NameIndexes(files'[last'.path]) :
                  ind \in 0..(Len(NamesOfFile(files'[last'.path]).val) - 1)]_vars

\* What the rebuild does with a texinfo view: a save() that returns had an
\* empty one cached, and the texinfo encode appended no name.
C26_NoNameAppended ==
    [][(Called("save") /\ TEXINFO \in DOMAIN parsed_lumps /\ last'.ok) =>
           /\ parsed_lumps[TEXINFO] = <<>>
           /\ lumps'[TEXINFO].data = <<>> /\ lumps'[TEXDATA].data = <<>>
           /\ (TEXDATA_STRING_DATA \notin DOMAIN parsed_lumps
                   /\ DescriptorGet(Self, TEXDATA_STRING_DATA).ok)
                  => NamesOfFile(files'[last'.path]).val
                         = DescriptorGet(Self, TEXDATA_STRING_DATA).val]_vars

(***************************************************************************)
(* Properties of a save() that raises.                                     *)
(***************************************************************************)
\* The instance after the step.
SelfAfter ==
    [lumps |-> lumps', parsed |-> parsed_lumps', game_lumps |-> game_lumps',
     map_revision |-> map_revision', version |-> version',
     out_comma_sep |-> out_comma_sep', next_oid |-> next_oid']

\* The view that raised, by its exception.
RaisedIn(err) ==
    CASE err = "NotImplementedError" -> {OVERLAYS}
      [] err = "TypeError" -> {TEXINFO}
      [] OTHER -> {}

\* C27: after a save() that raised, every view that was cached before it
\* yields the value it held: it is still cached with that value, or the
\* bytes of its lump decode to it.
C27_NothingLost ==
    [][(Called("save") /\ ~last'.ok) =>
           \A v \in DOMAIN parsed_lumps :
               \/ v \in DOMAIN parsed_lumps' /\ parsed_lumps'[v] = parsed_lumps[v]
               \/ /\ v \notin DOMAIN parsed_lumps'
                  /\ DescriptorGet(SelfAfter, v).ok
                  /\ DescriptorGet(SelfAfter, v).val = parsed_lumps[v]]_vars

\* What lines 413-419 do: the view that raised was cached and has been
\* popped, its lump is as it was before the save (empty, unless the file was
\* read again or the lump replaced since the view was cached), and no file
\* is written.
C27_RaisedViewLost ==
    [][(Called("save") /\ ~last'.ok) =>
           \A v \in RaisedIn(last'.err) :
               /\ v \in DOMAIN parsed_lumps
               /\ v \notin DOMAIN parsed_lumps'
               /\ lumps'[v] = lumps[v]
               /\ files' = files]_vars

(***************************************************************************)
(* Properties of a read() on an instance whose views were accessed.        *)
(***************************************************************************)
\* The views whose values hold no object of their own.
PlainViews == {PAKFILE, ENTITIES, CUBEMAPS, TEXDATA_STRING_DATA}

\* C28: after a read(), every view yields what the file just read decodes
\* to, as a new instance on the file does, and fails where that fails.
C28_ReadRefreshes ==
    [][(Called("read") /\ last'.ok) =>
           \A v \in PlainViews :
               /\ DescriptorGet(SelfAfter, v).ok = DescriptorGet(FileInstance, v).ok
               /\ DescriptorGet(SelfAfter, v).ok =>
                      DescriptorGet(SelfAfter, v).val = DescriptorGet(FileInstance, v).val]_vars

(***************************************************************************)
(* Properties of replace_lump.                                             *)
(***************************************************************************)
\* The payload of the slot l in the cells f of a file.
PayloadOf(f, l) == ReadAt(f, DirOffset(f, l), DirLength(f, l))

\* C29: the file a replace_lump has written holds, as the payload of the
\* slot, the bytes that were given.
C29_ReplacedBytes ==
    (last.op = "replace_lump" /\ last.ok) =>
        PayloadOf(files[last.path], last.lump) = last.ret

\* What replace_lump does: the bytes given are the payload where the slot
\* is of no view cached before the call or decoded during it; the slot of a
\* cached view holds what the view encodes to.
C29_ReplacedUnlessView ==
    [][(Called("replace_lump") /\ last'.ok) =>
           /\ last'.lump \notin LumpsOf((DOMAIN parsed_lumps) \cup last'.reads)
                  => PayloadOf(files'[last'.path], last'.lump) = last'.ret
           /\ last'.lump \in DOMAIN parsed_lumps
                  => /\ SaveFunc(Self, last'.lump, parsed_lumps[last'.lump]).ok
                     /\ PayloadOf(files'[last'.path], last'.lump)
                            = SaveFunc(Self, last'.lump, parsed_lumps[last'.lump]).val]_vars

(***************************************************************************)
(* Properties of the map version of the decoded entity lump.               *)
(***************************************************************************)
\* C30: the VMF a decode of the entity lump returns has, for map version,
\* the integer of the world's mapversion attribute where that is one.
C30_MapVersion ==
    (/\ last.op = "get" /\ last.lump = ENTITIES /\ last.ok
     /\ ENTITIES \in last.reads
     /\ IsInt(KeyValue(last.ret.spawn, STR_mapversion)))
        => last.ret.map_ver = IntValue(KeyValue(last.ret.spawn, STR_mapversion))

====
